---- MODULE Spec2Model ----
(***************************************************************************)
(* A model of verus_lemma_finder's search and ranking engine.              *)
(*                                                                         *)
(* Text is modelled at the character level: a Python str is a sequence of *)
(* one-character strings, so that regular-expression substitution, word   *)
(* tokenisation and substring tests are computed, not assumed.            *)
(* Floating-point scores are modelled as exact fractions <<n, d>>, d > 0. *)
(***************************************************************************)
EXTENDS Integers, Sequences, FiniteSets, TLC

----------------------------------------------------------------------------
(* Characters and the str methods the code uses                            *)

LowerAlpha ==
  <<"a","b","c","d","e","f","g","h","i","j","k","l","m",
    "n","o","p","q","r","s","t","u","v","w","x","y","z">>

UpperAlpha ==
  <<"A","B","C","D","E","F","G","H","I","J","K","L","M",
    "N","O","P","Q","R","S","T","U","V","W","X","Y","Z">>

DigitChars == {"0","1","2","3","4","5","6","7","8","9"}

Range(f) == {f[i] : i \in DOMAIN f}

LowerLetters == Range(LowerAlpha)
UpperLetters == Range(UpperAlpha)
WordChars == LowerLetters \cup UpperLetters \cup DigitChars \cup {"_"}

\* The regular-expression class \w over ASCII.
IsWordChar(c) == c \in WordChars

\* The regular-expression class \s; the model's texts hold no tab or newline.
IsSpace(c) == c = " "

LowerOf ==
  [c \in UpperLetters |-> LowerAlpha[CHOOSE i \in DOMAIN UpperAlpha : UpperAlpha[i] = c]]

LowerChar(c) == IF c \in UpperLetters THEN LowerOf[c] ELSE c

\* str.lower()
lower(s) == [i \in 1..Len(s) |-> LowerChar(s[i])]

\* The operator `in` on two strings: t occurs in s as a substring.
Contains(s, t) ==
  \E i \in 0..(Len(s) - Len(t)) : \A k \in 1..Len(t) : s[i + k] = t[k]

Minimum(S) == CHOOSE x \in S : \A y \in S : x <= y

\* `old` occurs in s at index j.
OccursAt(s, old, j) ==
  j + Len(old) - 1 <= Len(s) /\ \A k \in 1..Len(old) : s[j + k - 1] = old[k]

\* The indices i..Len(s) at which `old` occurs in s.
OccurrencesFrom(s, old, i) == {j \in i..Len(s) : OccursAt(s, old, j)}

RECURSIVE str_replace_from(_, _, _, _)
\* The scan resumes at index i: copy up to the next occurrence, replace it,
\* resume after it.
str_replace_from(s, old, new, i) ==
  LET replace_first(occurrences) ==
        IF occurrences = {} THEN SubSeq(s, i, Len(s))
        ELSE SubSeq(s, i, Minimum(occurrences) - 1) \o new
               \o str_replace_from(s, old, new, Minimum(occurrences) + Len(old))
  IN  replace_first(OccurrencesFrom(s, old, i))

\* str.replace(old, new) for a non-empty old: case-sensitive, left to right.
str_replace(s, old, new) == str_replace_from(s, old, new, 1)

RECURSIVE lstrip(_)
lstrip(s) == IF s # <<>> /\ IsSpace(Head(s)) THEN lstrip(Tail(s)) ELSE s

RECURSIVE rstrip(_)
rstrip(s) ==
  IF s # <<>> /\ IsSpace(s[Len(s)]) THEN rstrip(SubSeq(s, 1, Len(s) - 1)) ELSE s

\* str.strip()
strip(s) == rstrip(lstrip(s))

RECURSIVE join(_, _)
\* sep.join(parts)
join(sep, parts) ==
  IF parts = <<>> THEN <<>>
  ELSE IF Len(parts) = 1 THEN parts[1]
  ELSE parts[1] \o sep \o join(sep, Tail(parts))

RECURSIVE WordEnd(_, _)
WordEnd(s, i) == IF i < Len(s) /\ IsWordChar(s[i + 1]) THEN WordEnd(s, i + 1) ELSE i

RECURSIVE findall_words_from(_, _)
\* The scan resumes at index i: the next match starts at the next word
\* character and runs to the end of the word.
findall_words_from(s, i) ==
  LET word(b, e) == <<SubSeq(s, b, e)>> \o findall_words_from(s, e + 1)
      from(b) == word(b, WordEnd(s, b))
      next(starts) == IF starts = {} THEN <<>> ELSE from(Minimum(starts))
  IN  next({j \in i..Len(s) : IsWordChar(s[j])})

\* re.findall(r'\w+', s)
findall_words(s) == findall_words_from(s, 1)

\* The first index >= i of s that holds no whitespace (Len(s) + 1 if none).
RECURSIVE SkipSpaces(_, _)
SkipSpaces(s, i) == IF i <= Len(s) /\ IsSpace(s[i]) THEN SkipSpaces(s, i + 1) ELSE i

\* s has the text `word` (compared case-insensitively) at index i.
HasAt(s, word, i) ==
  /\ i >= 1
  /\ i + Len(word) - 1 <= Len(s)
  /\ \A k \in 1..Len(word) : LowerChar(s[i + k - 1]) = word[k]

\* The assertion \b between index i - 1 and index i.
Boundary(s, i) ==
  (i > 1 /\ i - 1 <= Len(s) /\ IsWordChar(s[i - 1]))
    # (i >= 1 /\ i <= Len(s) /\ IsWordChar(s[i]))

\* r"\b<word>\b" with re.IGNORECASE matches at the indices i..Len(s) given.
WordMatchesFrom(s, word, i) ==
  {j \in i..Len(s) : HasAt(s, word, j) /\ Boundary(s, j) /\ Boundary(s, j + Len(word))}

RECURSIVE sub_word_from(_, _, _, _)
\* The scan resumes at index i: copy up to the next match, replace it, resume
\* after it.
sub_word_from(s, word, repl, i) ==
  LET replace_first(matches) ==
        IF matches = {} THEN SubSeq(s, i, Len(s))
        ELSE SubSeq(s, i, Minimum(matches) - 1) \o repl
               \o sub_word_from(s, word, repl, Minimum(matches) + Len(word))
  IN  replace_first(WordMatchesFrom(s, word, i))

\* re.sub(r"\b<word>\b", repl, s, flags=re.IGNORECASE) for a lower-case word.
sub_word(s, word, repl) == sub_word_from(s, word, repl, 1)

----------------------------------------------------------------------------
(* QueryNormalizer (normalization.py)                                      *)

\* QueryNormalizer.math_replacements, in dict (insertion) order:
\* each entry is <<word of the pattern \bword\b, replacement>>.
math_replacements ==
  << <<<<"t","i","m","e","s">>, <<"*">> >>,
     <<<<"m","u","l">>, <<"*">> >>,
     <<<<"m","u","l","t","i","p","l","y">>, <<"*">> >>,
     <<<<"d","i","v">>, <<"/">> >>,
     <<<<"d","i","v","i","d","e">>, <<"/">> >>,
     <<<<"m","o","d","u","l","o">>, <<"m","o","d">> >>,
     <<<<"w","h","e","n">>, <<"i","f">> >>,
     <<<<"i","f","f">>, <<"i","f"," ","a","n","d"," ","o","n","l","y"," ","i","f">> >>,
     <<<<"l","e","q">>, <<"<","=">> >>,
     <<<<"g","e","q">>, <<">","=">> >>,
     <<<<"n","e","q">>, <<"!","=">> >> >>

RECURSIVE apply_replacements(_, _)
apply_replacements(s, rules) ==
  IF rules = <<>> THEN s
  ELSE apply_replacements(sub_word(s, rules[1][1], rules[1][2]), Tail(rules))

\* The rules applied with a rule "mod" -> "%" put first, before
\* "modulo" -> "mod".
normalize_operators_mod_first(query) ==
  apply_replacements(query, << <<<<"m","o","d">>, <<"%">> >> >> \o math_replacements)

\* QueryNormalizer._normalize_operators
normalize_operators(query) == apply_replacements(query, math_replacements)

\* QueryNormalizer.normalize_operators_only
normalize_operators_only(text) == normalize_operators(text)

\* The character class [*+\-/<>=] of var_pattern.
OperatorChars == {"*", "+", "-", "/", "<", ">", "="}

W_if == <<"i","f">>
W_then == <<"t","h","e","n">>
W_and == <<"a","n","d">>
W_mod == <<"m","o","d">>
W_var == <<"v","a","r">>

\* The lookahead (?=\s*[*+\-/<>=]|\s+if\b|\s+then\b) of var_pattern at index j.
VarLookahead(s, j) ==
  LET k == SkipSpaces(s, j)
  IN  \/ k <= Len(s) /\ s[k] \in OperatorChars
      \/ k > j /\ HasAt(s, W_if, k) /\ Boundary(s, k + 2)
      \/ k > j /\ HasAt(s, W_then, k) /\ Boundary(s, k + 4)

\* var_pattern matches at index i: \b([a-z])\b(?=...) with re.IGNORECASE.
IsVarAt(s, i) ==
  /\ LowerChar(s[i]) \in LowerLetters
  /\ Boundary(s, i)
  /\ Boundary(s, i + 1)
  /\ VarLookahead(s, i + 1)

\* re.findall(var_pattern, query, flags=re.IGNORECASE)
\* (a match is one letter long and the lookahead consumes nothing, so the
\* matches are all the indices at which the pattern matches, in order).
variables_found(query) ==
  LET letters(at) == [j \in 1..Len(at) |-> query[at[j]]]
  IN  letters(SelectSeq([i \in 1..Len(query) |-> i], LAMBDA i : IsVarAt(query, i)))

RECURSIVE dedup_lower(_, _)
\* The loop that fills unique_vars: first occurrences, lower-cased.
dedup_lower(found, acc) ==
  IF found = <<>> THEN acc
  ELSE dedup_lower(Tail(found),
         IF LowerChar(Head(found)) \in Range(acc) THEN acc
         ELSE Append(acc, LowerChar(Head(found))))

\* unique_vars left in the order of first appearance.
unsorted_letters(vars) == vars

\* list.sort() on a list of distinct lower-case letters.
sort_letters(vars) == SelectSeq(LowerAlpha, LAMBDA c : c \in Range(vars))

DigitSeq == <<"0","1","2","3","4","5","6","7","8","9">>

\* str(n) for 0 <= n < 100
int_to_str(n) ==
  IF n < 10 THEN <<DigitSeq[n + 1]>>
  ELSE <<DigitSeq[(n \div 10) + 1], DigitSeq[(n % 10) + 1]>>

RECURSIVE rename_vars(_, _, _)
\* for i, var in enumerate(unique_vars): re.sub(rf"\b{var}\b", f"var{i + 1}", ...)
rename_vars(s, vars, i) ==
  IF i > Len(vars) THEN s
  ELSE rename_vars(sub_word(s, <<vars[i]>>, W_var \o int_to_str(i)), vars, i + 1)

\* QueryNormalizer._normalize_variables
normalize_variables(query) ==
  LET rename(found) ==
        IF found = <<>> THEN query
        ELSE rename_vars(query, sort_letters(dedup_lower(found, <<>>)), 1)
  IN  rename(variables_found(query))

\* The two passes of normalize in the other order.
normalize_variables_first(query) == normalize_operators(normalize_variables(query))

\* QueryNormalizer.normalize
normalize(query) == normalize_variables(normalize_operators(query))

\* No match of a regular expression (re.search returning None).
NoMatch == <<>>

\* "\s+then\s+(.+?)$" can match with its "then" at index t: a whitespace and
\* at least one more character follow the word.
ThenValid(s, t) ==
  HasAt(s, W_then, t) /\ t + 5 <= Len(s) /\ IsSpace(s[t + 4])

\* The ends e of group 1 (starting at g) after which "\s+then\s+(.+?)$" matches.
IfThenEnds(s, g) ==
  {e \in g..(Len(s) - 1) : IsSpace(s[e + 1]) /\ ThenValid(s, SkipSpaces(s, e + 1))}

\* if_then_pattern r"if\s+(.+?)\s+then\s+(.+?)$" matches with its "if" at p.
\* The greedy \s+ first takes the whole run of whitespace (group 1 then starts
\* at g); giving whitespace back only helps when "then" stands at g and at
\* least three whitespaces precede it, and group 1 is then one whitespace.
IfThenMatchesAt(s, p) ==
  /\ HasAt(s, W_if, p)
  /\ p + 2 <= Len(s)
  /\ IsSpace(s[p + 2])
  /\ LET g == SkipSpaces(s, p + 2)
     IN  IfThenEnds(s, g) # {} \/ (g - (p + 2) >= 3 /\ ThenValid(s, g))

\* re.search(if_then_pattern, query, flags=re.IGNORECASE):
\* NoMatch, or <<group(1), group(2)>> of the leftmost match.
if_then_search(s) ==
  LET \* group 2 when the whitespace after "then" ends before index k
      group2(k) == SubSeq(s, k - (IF k > Len(s) THEN 1 ELSE 0), Len(s))
      \* group 1 starts at g and can end at the indices `ends`
      groups(g, ends) ==
        IF ends # {}
          THEN <<SubSeq(s, g, Minimum(ends)),
                 group2(SkipSpaces(s, SkipSpaces(s, Minimum(ends) + 1) + 4))>>
          ELSE <<SubSeq(s, g - 2, g - 2), group2(SkipSpaces(s, g + 4))>>
      from(g) == groups(g, IfThenEnds(s, g))
      leftmost(starts) ==
        IF starts = {} THEN NoMatch ELSE from(SkipSpaces(s, Minimum(starts) + 2))
  IN  leftmost({p \in 1..Len(s) : IfThenMatchesAt(s, p)})

\* "\s+if\s+(.+)$" can match with its "if" at index f.
BackwardIfValid(s, f) ==
  HasAt(s, W_if, f) /\ f + 3 <= Len(s) /\ IsSpace(s[f + 2])

\* re.search(backward_if_pattern, query, flags=re.IGNORECASE) for
\* r"^(.+?)\s+if\s+(.+)$": NoMatch, or <<group(1), group(2)>>.
backward_if_search(s) ==
  LET \* group 2 when the whitespace after "if" ends before index k
      group2(k) == SubSeq(s, IF k > Len(s) THEN k - 1 ELSE k, Len(s))
      \* group 1 ends at e, the first index it can end at
      groups(e) == <<SubSeq(s, 1, e), group2(SkipSpaces(s, SkipSpaces(s, e + 1) + 2))>>
      shortest(ends) == IF ends = {} THEN NoMatch ELSE groups(Minimum(ends))
  IN  shortest({e \in 1..(Len(s) - 1) :
                  IsSpace(s[e + 1]) /\ BackwardIfValid(s, SkipSpaces(s, e + 1))})

\* r"\s+and\s+" matches at index i: the index after the match, or 0.
AndSepEnd(s, i) ==
  IF i <= Len(s) /\ IsSpace(s[i])
    THEN LET k == SkipSpaces(s, i)
         IN  IF HasAt(s, W_and, k) /\ k + 3 <= Len(s) /\ IsSpace(s[k + 3])
               THEN SkipSpaces(s, k + 3) ELSE 0
    ELSE 0

RECURSIVE split_and_from(_, _)
\* The parts of s from index i on: up to the next separator, then the rest.
split_and_from(s, i) ==
  LET split_first(separators) ==
        IF separators = <<>> THEN <<SubSeq(s, i, Len(s))>>
        ELSE <<SubSeq(s, i, separators[1][1] - 1)>> \o split_and_from(s, separators[1][2])
  IN  split_first(SelectSeq([j \in 1..Len(s) |-> <<j, AndSepEnd(s, j)>>],
                            LAMBDA m : m[1] >= i /\ m[2] # 0))

\* re.split(r"\s+and\s+", condition, flags=re.IGNORECASE)
split_and(condition) == split_and_from(condition, 1)

\* The list of variations returned as built, duplicates and all.
unique_in_order_keeping_all(variations, acc) == variations

RECURSIVE unique_in_order(_, _)
\* The loop over `variations` that keeps first occurrences.
unique_in_order(variations, acc) ==
  IF variations = <<>> THEN acc
  ELSE unique_in_order(Tail(variations),
         IF Head(variations) \in Range(acc) THEN acc
         ELSE Append(acc, Head(variations)))

\* Variation 0 of generate_variations: the mod/% variants.
mod_variations(query) ==
  IF Contains(lower(query), W_mod) /\ ~Contains(query, <<"%">>)
    THEN <<str_replace(query, W_mod, <<"%">>)>>
  ELSE IF Contains(query, <<"%">>) /\ ~Contains(lower(query), W_mod)
    THEN <<str_replace(query, <<"%">>, W_mod)>>
  ELSE <<>>

\* Variation 1 of generate_variations: "if A then B" -> "B if A".
forward_variations(query) ==
  LET reverse(m) ==
        IF m = NoMatch THEN <<>>
        ELSE <<strip(m[2]) \o <<" ">> \o W_if \o <<" ">> \o strip(m[1])>>
  IN  reverse(if_then_search(query))

\* The rest of generate_variations without its test `"then" not in
\* query.lower()`: the backward pattern is used on if-then queries too.
backward_variations_ignoring_then(query) ==
  LET if_then(conclusion, c) ==
        W_if \o <<" ">> \o c \o <<" ">> \o W_then \o <<" ">> \o conclusion
      back_if(conclusion, c) == conclusion \o <<" ">> \o W_if \o <<" ">> \o c
      both(conclusion, swapped) ==
        <<back_if(conclusion, swapped), if_then(conclusion, swapped)>>
      swaps(conclusion, condition, parts) ==
        IF Contains(lower(condition), <<" ">> \o W_and \o <<" ">>) /\ Len(parts) = 2
          THEN both(conclusion, parts[2] \o <<" ">> \o W_and \o <<" ">> \o parts[1])
          ELSE <<>>
      forward(conclusion, condition) ==
        <<if_then(conclusion, condition)>>
          \o swaps(conclusion, condition, split_and(condition))
      variations(m) ==
        IF m = NoMatch THEN <<>> ELSE forward(strip(m[1]), strip(m[2]))
  IN  variations(backward_if_search(query))

\* The rest of generate_variations: "B if A" -> "if A then B", and the two
\* forms with the parts of a two-part "A and C" condition swapped.
backward_variations(query) ==
  LET if_then(conclusion, c) ==
        W_if \o <<" ">> \o c \o <<" ">> \o W_then \o <<" ">> \o conclusion
      back_if(conclusion, c) == conclusion \o <<" ">> \o W_if \o <<" ">> \o c
      both(conclusion, swapped) ==
        <<back_if(conclusion, swapped), if_then(conclusion, swapped)>>
      swaps(conclusion, condition, parts) ==
        IF Contains(lower(condition), <<" ">> \o W_and \o <<" ">>) /\ Len(parts) = 2
          THEN both(conclusion, parts[2] \o <<" ">> \o W_and \o <<" ">> \o parts[1])
          ELSE <<>>
      forward(conclusion, condition) ==
        <<if_then(conclusion, condition)>>
          \o swaps(conclusion, condition, split_and(condition))
      variations(m) ==
        IF m = NoMatch \/ Contains(lower(query), W_then) THEN <<>>
        ELSE forward(strip(m[1]), strip(m[2]))
  IN  variations(backward_if_search(query))

\* QueryNormalizer.generate_variations
generate_variations(query) ==
  unique_in_order(<<query>> \o mod_variations(query) \o forward_variations(query)
                    \o backward_variations(query), <<>>)

----------------------------------------------------------------------------
(* Scores: Python floats, modelled as exact fractions <<n, d>> with d > 0  *)

RECURSIVE GCD(_, _)
GCD(a, b) == IF b = 0 THEN a ELSE GCD(b, a % b)

Abs(n) == IF n < 0 THEN -n ELSE n

Frac(n, d) ==
  LET g == GCD(Abs(n), d)
  IN  IF n = 0 THEN <<0, 1>> ELSE <<n \div g, d \div g>>

FInt(n) == <<n, 1>>
FAdd(a, b) == Frac(a[1] * b[2] + b[1] * a[2], a[2] * b[2])
FSub(a, b) == Frac(a[1] * b[2] - b[1] * a[2], a[2] * b[2])
FMul(a, b) == Frac(a[1] * b[1], a[2] * b[2])
\* a / b for b > 0
FDiv(a, b) == Frac(a[1] * b[2], a[2] * b[1])
FLess(a, b) == a[1] * b[2] < b[1] * a[2]
FLeq(a, b) == a[1] * b[2] <= b[1] * a[2]
FZero == <<0, 1>>
FOne == <<1, 1>>

----------------------------------------------------------------------------
(* LemmaInfo (models.py)                                                   *)

T_Name == <<"N","a","m","e",":"," ">>
T_Documentation == <<"D","o","c","u","m","e","n","t","a","t","i","o","n",":"," ">>
T_Signature == <<"S","i","g","n","a","t","u","r","e",":"," ">>
T_Preconditions == <<"P","r","e","c","o","n","d","i","t","i","o","n","s",":"," ">>
T_Postconditions == <<"P","o","s","t","c","o","n","d","i","t","i","o","n","s",":"," ">>
T_AND == <<" ","A","N","D"," ">>

\* LemmaInfo.to_searchable_text(normalize)
to_searchable_text(lemma, normalize_flag) ==
  LET parts ==
        << T_Name \o lemma.name,
           T_Documentation \o lemma.documentation,
           T_Signature \o lemma.signature >>
        \o (IF lemma.requires_clauses # <<>>
              THEN <<T_Preconditions \o join(T_AND, lemma.requires_clauses)>> ELSE <<>>)
        \o (IF lemma.ensures_clauses # <<>>
              THEN <<T_Postconditions \o join(T_AND, lemma.ensures_clauses)>> ELSE <<>>)
      text == join(<<" ">>, parts)
  IN  IF normalize_flag THEN normalize_operators_only(text) ELSE text

\* The lemma records of the model: Lemma2 and Lemma3 are two distinct lemmas
\* with one name (a project lemma shadowing a vstd lemma).
Lemma1 ==
  [name |-> <<"l","e","m","m","a","_","m","u","l","_","l","e">>,
   file_path |-> <<"m","u","l",".","r","s">>,
   line_number |-> <<3>>,
   documentation |-> <<"a"," ","t","i","m","e","s"," ","b">>,
   signature |-> <<"f","n","(","a",","," ","b",")">>,
   requires_clauses |-> <<<<"a"," ","*"," ","b"," ","<","="," ","c">>>>,
   ensures_clauses |-> <<<<"a"," ","<","="," ","c"," ","/"," ","b">>>>,
   symbol_id |-> "s1",
   source |-> "project"]

Lemma2 ==
  [name |-> <<"l","e","m","m","a","_","m","o","d">>,
   file_path |-> <<"m","o","d",".","r","s">>,
   line_number |-> <<>>,
   documentation |-> <<"x"," ","m","o","d"," ","y">>,
   signature |-> <<"f","n","(","x",")">>,
   requires_clauses |-> <<>>,
   ensures_clauses |-> <<<<"x"," ","%"," ","y"," ","<"," ","y">>>>,
   symbol_id |-> "s2",
   source |-> "vstd"]

Lemma3 ==
  [name |-> <<"l","e","m","m","a","_","m","o","d">>,
   file_path |-> <<"m","2",".","r","s">>,
   line_number |-> <<7>>,
   documentation |-> <<"m","o","d","u","l","o"," ","t","i","m","e","s">>,
   signature |-> <<>>,
   requires_clauses |-> <<<<"y"," ",">"," ","0">>, <<"x"," ",">"," ","0">>>>,
   ensures_clauses |-> <<>>,
   symbol_id |-> "s3",
   source |-> "project"]

Lemma4 ==
  [name |-> <<"a","x","i","o","m","_","d","i","v">>,
   file_path |-> <<>>,
   line_number |-> <<>>,
   documentation |-> <<>>,
   signature |-> <<"f","n","(",")">>,
   requires_clauses |-> <<>>,
   ensures_clauses |-> <<>>,
   symbol_id |-> "s4",
   source |-> "project"]

Lemma5 ==
  [name |-> <<"s","p","e","c","_","m","u","l">>,
   file_path |-> <<>>,
   line_number |-> <<9>>,
   documentation |-> <<"b"," ","h","o","l","d","s">>,
   signature |-> <<>>,
   requires_clauses |-> <<>>,
   ensures_clauses |-> << <<"a"," ","=","="," ","b">> >>,
   symbol_id |-> "s5",
   source |-> "vstd"]

\* The lemmas of the model, in index order.
AllLemmas == <<Lemma1, Lemma2, Lemma3, Lemma4, Lemma5>>

----------------------------------------------------------------------------
(* SearchConfig (config.py)                                                *)

\* SearchConfig(): the defaults.
DefaultSearchConfig ==
  [keyword_weight   |-> <<3, 10>>,
   semantic_weight  |-> <<7, 10>>,
   default_top_k    |-> 10,
   name_match_boost |-> <<2, 1>>,
   doc_match_boost  |-> <<3, 2>>,
   embedding_model  |-> "all-MiniLM-L6-v2"]

\* A configuration file that sets other weights and boosts.
CustomSearchConfig ==
  [keyword_weight   |-> <<1, 2>>,
   semantic_weight  |-> <<1, 2>>,
   default_top_k    |-> 10,
   name_match_boost |-> <<1, 1>>,
   doc_match_boost  |-> <<0, 1>>,
   embedding_model  |-> "all-MiniLM-L6-v2"]

----------------------------------------------------------------------------
(* The sentence-transformer encoder and numpy                              *)

\* The unit vectors an encoder produces, scaled by 5 (cosines in 1/25ths).
Vectors ==
  << <<5, 0>>, <<4, 3>>, <<3, 4>>, <<0, 5>>, <<-3, 4>>, <<-5, 0>>, <<-4, -3>>, <<3, -4>> >>

CodeOf == [c \in LowerLetters |-> CHOOSE i \in DOMAIN LowerAlpha : LowerAlpha[i] = c]

CharCode(c) == IF c \in LowerLetters THEN CodeOf[c] ELSE Len(LowerAlpha) + 1

RECURSIVE TextSumRange(_, _, _)
TextSumRange(s, lo, hi) ==
  IF lo > hi THEN 0
  ELSE IF lo = hi THEN CharCode(s[lo])
  ELSE TextSumRange(s, lo, (lo + hi) \div 2) + TextSumRange(s, ((lo + hi) \div 2) + 1, hi)

\* The sum of the character codes of a text.
TextSum(s) == TextSumRange(s, 1, Len(s))

\* SentenceTransformer.encode on one text: an opaque deterministic function
\* of the model and the text. A model is [name, seed]; the seed selects one
\* function of a small family.
encode(model, text) ==
  Vectors[((TextSum(text) * model.seed + Len(text)) % Len(Vectors)) + 1]

\* Cosine similarity of two encoder vectors (both of norm 5).
cosine(u, v) == Frac(u[1] * v[1] + u[2] * v[2], 25)

RECURSIVE InsertAscending(_, _, _)
\* Insert index x after every index whose key is <= key[x].
InsertAscending(sorted, x, key) ==
  IF sorted = <<>> THEN <<x>>
  ELSE IF FLess(key[x], key[Head(sorted)]) THEN <<x>> \o sorted
  ELSE <<Head(sorted)>> \o InsertAscending(Tail(sorted), x, key)

RECURSIVE argsort_from(_, _)
argsort_from(key, i) ==
  IF i = 0 THEN <<>> ELSE InsertAscending(argsort_from(key, i - 1), i, key)

\* np.argsort(key): ascending; equal keys keep their index order (numpy's
\* default sort leaves the order of equal keys unspecified; the model fixes
\* the stable one).
argsort(key) == argsort_from(key, Len(key))

reversed(s) == [i \in 1..Len(s) |-> s[Len(s) + 1 - i]]

\* The slice s[:k + 1]: one element too many.
slice_to_one_more(s, k) == SubSeq(s, 1, IF k + 1 < Len(s) THEN k + 1 ELSE Len(s))

\* The slice s[:k] of a Python list.
slice_to(s, k) ==
  IF k >= 0 THEN SubSeq(s, 1, IF k < Len(s) THEN k ELSE Len(s))
  ELSE SubSeq(s, 1, Len(s) + k)

RECURSIVE InsertDescending(_, _)
\* Insert result x after every result whose score is >= the score of x.
InsertDescending(sorted, x) ==
  IF sorted = <<>> THEN <<x>>
  ELSE IF FLess(Head(sorted)[2], x[2]) THEN <<x>> \o sorted
  ELSE <<Head(sorted)>> \o InsertDescending(Tail(sorted), x)

RECURSIVE sort_by_score(_)
\* results.sort(key=lambda x: x[1], reverse=True): stable, descending.
sort_by_score(results) ==
  IF results = <<>> THEN <<>>
  ELSE InsertDescending(sort_by_score(SubSeq(results, 1, Len(results) - 1)),
                        results[Len(results)])

----------------------------------------------------------------------------
(* LemmaSearcher (search.py): the search methods                           *)
(* An engine `self` is [lemmas, embeddings, model, use_embeddings, config, *)
(* index_file]; an optional value is None or Some(v).                      *)

None == <<>>
Some(v) == <<v>>

\* What the loop body of keyword_search derives from the lemma alone.
lemma_terms(lemma) ==
  [searchable_terms |-> Range(findall_words(lower(to_searchable_text(lemma, FALSE)))),
   name_lower       |-> lower(lemma.name) \o <<>>,
   doc_lower        |-> lower(lemma.documentation) \o <<>>]

\* The lemma with another source tag, file path, line number and symbol id.
Retagged(lemma) ==
  [lemma EXCEPT !.source = "elsewhere",
                !.file_path = <<"o",".","r","s">>,
                !.line_number = IF lemma.line_number = None THEN Some(1) ELSE None,
                !.symbol_id = "other"]

\* The lemmas of the model and the same lemmas retagged.
KnownLemmas == AllLemmas \o [i \in DOMAIN AllLemmas |-> Retagged(AllLemmas[i])]

\* lemma_terms of the lemmas of the model, evaluated once.
LemmaTermsTable == [i \in DOMAIN KnownLemmas |-> lemma_terms(KnownLemmas[i])]

terms_of(lemma) ==
  IF \E i \in DOMAIN KnownLemmas : KnownLemmas[i] = lemma
    THEN LemmaTermsTable[CHOOSE i \in DOMAIN KnownLemmas : KnownLemmas[i] = lemma]
    ELSE lemma_terms(lemma)

\* keyword_score without the name and documentation bonuses.
keyword_score_overlap_only(self, lemma, query_terms) ==
  FInt(Cardinality(query_terms \cap terms_of(lemma).searchable_terms))

\* A score that prefers the project's own lemmas to those of vstd.
keyword_score_by_source(self, lemma, query_terms) ==
  FAdd(keyword_score_overlap_only(self, lemma, query_terms),
       IF lemma.source = "project" THEN FOne ELSE FZero)

\* The score keyword_search gives one lemma for the set query_terms.
keyword_score(self, lemma, query_terms) ==
  LET overlap(terms)      == Cardinality(query_terms \cap terms.searchable_terms)
      name_matches(terms) ==
        Cardinality({term \in query_terms : Contains(terms.name_lower, term)})
      doc_matches(terms)  ==
        Cardinality({term \in query_terms : Contains(terms.doc_lower, term)})
      score(terms) ==
        FAdd(FAdd(FInt(overlap(terms)),
                  FMul(FInt(name_matches(terms)), self.config.search.name_match_boost)),
             FMul(FInt(doc_matches(terms)), self.config.search.doc_match_boost))
  IN  score(terms_of(lemma))

RECURSIVE keyword_scan(_, _, _)
\* The loop of keyword_search over self.lemmas from index i.
keyword_scan(self, query_terms, i) ==
  IF i > Len(self.lemmas) THEN <<>>
  ELSE LET \* if score > 0: results.append((lemma, score))
           append(lemma, score) ==
             IF FLess(FZero, score) THEN << <<lemma, score>> >> ELSE <<>>
       IN  append(self.lemmas[i], keyword_score(self, self.lemmas[i], query_terms))
             \o keyword_scan(self, query_terms, i + 1)

\* LemmaSearcher.keyword_search
keyword_search(self, query, top_k) ==
  slice_to(sort_by_score(keyword_scan(self, Range(findall_words(lower(query))), 1)), top_k)

\* LemmaSearcher.semantic_search
semantic_search(self, query, top_k) ==
  IF self.embeddings = None \/ self.model = None
    THEN keyword_search(self, query, top_k)
    ELSE LET results(similarities, top_indices) ==
               [j \in 1..Len(top_indices) |->
                  <<self.lemmas[top_indices[j]], similarities[top_indices[j]]>>]
             top(similarities) ==
               results(similarities, slice_to(reversed(argsort(similarities)), top_k))
             similar(rows, query_embedding) ==
               top([i \in 1..Len(rows) |-> cosine(rows[i], query_embedding)])
         IN  similar(self.embeddings[1], encode(self.model[1], query))

\* max((score for _, score in results), default=1.0)
max_score(results) ==
  IF results = <<>> THEN FOne
  ELSE LET i == CHOOSE i \in DOMAIN results :
                  \A j \in DOMAIN results : FLeq(results[j][2], results[i][2])
       IN  results[i][2]

\* score / max if max > 0 else 0
normalized_score(score, max) == IF FLess(FZero, max) THEN FDiv(score, max) ELSE FZero

\* Every key taken for a new one: a list of entries, not a dict.
dict_index_always_new(dict, key) == 0

\* The index of key in a dict kept as a sequence of entries (0 if absent).
dict_index(dict, key) ==
  IF \E i \in DOMAIN dict : dict[i].key = key
    THEN CHOOSE i \in DOMAIN dict : dict[i].key = key
    ELSE 0

\* dict[key] = entry: a new key goes last, an old key keeps its place.
dict_set(dict, entry) ==
  IF dict_index(dict, entry.key) = 0 THEN Append(dict, entry)
  ELSE [dict EXCEPT ![dict_index(dict, entry.key)] = entry]

RECURSIVE combine_semantic(_, _, _, _)
\* The loop of hybrid_search over semantic_results.
combine_semantic(combined, results, max_semantic, keyword_weight) ==
  IF results = <<>> THEN combined
  ELSE LET lemma == Head(results)[1]
           norm  == normalized_score(Head(results)[2], max_semantic)
       IN  combine_semantic(
             dict_set(combined,
                      [key |-> lemma.name, lemma |-> lemma,
                       score |-> FMul(norm, FSub(FOne, keyword_weight))]),
             Tail(results), max_semantic, keyword_weight)

RECURSIVE combine_keyword(_, _, _, _)
\* The loop of hybrid_search over keyword_results.
combine_keyword(combined, results, max_keyword, keyword_weight) ==
  IF results = <<>> THEN combined
  ELSE LET lemma == Head(results)[1]
           norm  == normalized_score(Head(results)[2], max_keyword)
           at    == dict_index(combined, lemma.name)
       IN  combine_keyword(
             IF at # 0
               THEN [combined EXCEPT
                       ![at].score = FAdd(combined[at].score, FMul(norm, keyword_weight))]
               ELSE Append(combined,
                           [key |-> lemma.name, lemma |-> lemma,
                            score |-> FMul(norm, keyword_weight)]),
             Tail(results), max_keyword, keyword_weight)

\* [(v['lemma'], v['score']) for v in dict.values()]
dict_results(dict) == [i \in DOMAIN dict |-> <<dict[i].lemma, dict[i].score>>]

\* LemmaSearcher.hybrid_search; keyword_weight is None or Some(weight).
hybrid_search(self, query, top_k, keyword_weight) ==
  IF self.embeddings = None THEN keyword_search(self, query, top_k)
  ELSE LET combined_scores(semantic_results, keyword_results, weight) ==
             combine_keyword(
               combine_semantic(<<>>, semantic_results, max_score(semantic_results), weight),
               keyword_results, max_score(keyword_results), weight)
       IN  slice_to(sort_by_score(dict_results(
             combined_scores(semantic_search(self, query, top_k * 2),
                             keyword_search(self, query, top_k * 2),
                             IF keyword_weight = None
                               THEN self.config.search.keyword_weight
                               ELSE keyword_weight[1]))), top_k)

\* The comparison of fuzzy_search dropped: the last variant's score is kept.
is_better_always(all_results, at, score) == TRUE

\* key not in all_results or score > all_results[key][1]
is_better(all_results, at, score) == at = 0 \/ FLess(all_results[at].score, score)

RECURSIVE merge_best(_, _)
\* The inner loop of fuzzy_search: keep the best score per lemma name.
merge_best(all_results, results) ==
  IF results = <<>> THEN all_results
  ELSE LET lemma == Head(results)[1]
           score == Head(results)[2]
           at    == dict_index(all_results, lemma.name)
       IN  merge_best(
             IF is_better(all_results, at, score)
               THEN dict_set(all_results,
                             [key |-> lemma.name, lemma |-> lemma, score |-> score])
               ELSE all_results,
             Tail(results))

RECURSIVE search_variations(_, _, _, _)
\* The outer loop of fuzzy_search over query_variations.
search_variations(self, all_results, variations, top_k) ==
  IF variations = <<>> THEN all_results
  ELSE search_variations(self,
         merge_best(all_results, hybrid_search(self, Head(variations), top_k * 2, None)),
         Tail(variations), top_k)

\* fuzzy_search handing the query as given, not normalized, to keyword_search.
fuzzy_search_of_raw_query(self, query, top_k) ==
  IF self.embeddings # None
    THEN slice_to(sort_by_score(dict_results(
           search_variations(self, <<>>, generate_variations(normalize(query)), top_k))), top_k)
    ELSE keyword_search(self, query, top_k)

\* fuzzy_search never using the matrix: the lexical search of the normalized
\* query, whatever the engine holds.
fuzzy_search_keyword_only(self, query, top_k) ==
  keyword_search(self, normalize(query), top_k)

\* fuzzy_search running every variation through hybrid_search and merging,
\* with or without a matrix.
fuzzy_search_all_variations(self, query, top_k) ==
  slice_to(sort_by_score(dict_results(
    search_variations(self, <<>>, generate_variations(normalize(query)), top_k))), top_k)

\* LemmaSearcher.fuzzy_search
fuzzy_search(self, query, top_k) ==
  LET search_normalized(normalized) ==
        IF self.embeddings # None
          THEN slice_to(sort_by_score(dict_results(
                 search_variations(self, <<>>, generate_variations(normalized), top_k))),
                 top_k)
          ELSE keyword_search(self, normalized, top_k)
  IN  search_normalized(normalize(query))

\* LemmaSearcher.search
search(self, query, top_k) == fuzzy_search(self, query, top_k)

----------------------------------------------------------------------------
(* State                                                                   *)
(* search.py and indexing.py bind numpy as np only under TYPE_CHECKING;    *)
(* the model takes np to be the numpy module, as every use of it intends.  *)

VARIABLES
  EMBEDDINGS_AVAILABLE,  \* utils.EMBEDDINGS_AVAILABLE: sentence-transformers imports
  encoder_seed,          \* which function the (external) encoder computes
  model_cache,           \* ModelCache._model and ModelCache._model_name
  index_files,           \* path -> None or Some(JSON document)
  embeddings_files,      \* path -> None or Some(matrix): the sibling .embeddings.npy
  indexer,               \* None or Some(LemmaIndexer object)
  searcher,              \* None or Some(LemmaSearcher object)
  constructed,           \* the last LemmaSearcher(...) call and whether it raised
  call,                  \* the last method call on the searcher
  result,                \* what that call returned
  config_file,           \* verus_lemma_finder.config.json: None or Some(its "search" section)
  global_config,         \* config._config, the lazily loaded singleton
  config_objects,        \* how many Config objects the configuration sessions' get_config created
  unreadable_npys,       \* the paths whose .embeddings.npy np.load cannot read
  encoder_raises,        \* model.encode raises when called now
  loads,                 \* model name -> how often SentenceTransformer(name) was called
  held,                  \* <<model name, load number>> of the encoders engines were given
  threads                \* thread -> its position in ModelCache.get_model

vars ==
  <<EMBEDDINGS_AVAILABLE, encoder_seed, model_cache, index_files, embeddings_files,
    indexer, searcher, constructed, call, result, config_file, global_config, config_objects,
    unreadable_npys, encoder_raises, loads, held, threads>>

\* The configuration file, the encoder's health and the model cache's callers.
Environment ==
  <<config_file, global_config, config_objects, unreadable_npys, encoder_raises, loads,
    held, threads>>

\* The bounds of the model.
MaxTopK == 2
MaxLemmas == 4
MaxSeed == 2
MaxIndexed == 2

\* The index paths of the model: one, the project's index, which cmd_add_vstd
\* reads and by default overwrites.
Paths == {1}

\* The sentence-transformer models a configuration can name.
ModelNames == {"all-MiniLM-L6-v2", "all-mpnet-base-v2"}

\* The threads that call ModelCache.get_model.
MaxThreads == 3
Threads == 1..MaxThreads

\* A thread outside get_model.
Idle == [pc |-> "idle", model_name |-> None, loaded |-> None, returned |-> None]

\* No configuration file, a healthy encoder, readable files, nothing loaded
\* yet and no thread in get_model. (loads and held are kept by the actions on
\* engines and on the model cache below; a search session and the life of an
\* index leave the environment as it is.)
QuietEnvironment ==
  /\ config_file = None
  /\ global_config = None
  /\ config_objects = 0
  /\ unreadable_npys = {}
  /\ encoder_raises = FALSE
  /\ loads = [name \in ModelNames |-> 0]
  /\ held = {}
  /\ threads = [t \in Threads |-> Idle]

\* IndexingConfig(): the defaults.
DefaultIndexingConfig ==
  [embedding_model         |-> "all-MiniLM-L6-v2",
   lemma_file_keywords     |-> <<<<"l","e","m","m","a","s">>, <<"s","p","e","c","s">>,
                                 <<"f","i","e","l","d",".","r","s">>,
                                 <<"s","c","a","l","a","r",".","r","s">>>>,
   lemma_function_prefixes |-> <<<<"l","e","m","m","a","_">>, <<"a","x","i","o","m","_">>,
                                 <<"s","p","e","c","_">>, <<"p","r","o","o","f","_">>>>,
   scip_function_kind      |-> 17,
   scip_definition_role    |-> 1]

\* The configurations of the model.
Configs ==
  {[search |-> DefaultSearchConfig, indexing |-> DefaultIndexingConfig],
   [search |-> CustomSearchConfig,  indexing |-> DefaultIndexingConfig]}

----------------------------------------------------------------------------
(* ModelCache (utils.py)                                                   *)

\* SentenceTransformer(model_name): the loaded model.
SentenceTransformer(model_name, seed) == [name |-> model_name, seed |-> seed]

\* ModelCache.get_model: <<returned model, cache after the call>>.
get_model(cache, model_name, available, seed) ==
  IF ~available THEN <<None, cache>>
  ELSE IF cache.model = None \/ cache.model_name # Some(model_name)
    THEN LET loaded == SentenceTransformer(model_name, seed)
         IN  <<Some(loaded), [model |-> Some(loaded), model_name |-> Some(model_name)]>>
    ELSE <<cache.model, cache>>

\* get_sentence_transformer_model
get_sentence_transformer_model(cache, model_name, available, seed) ==
  get_model(cache, model_name, available, seed)

EmptyCache == [model |-> None, model_name |-> None]

----------------------------------------------------------------------------
(* LemmaSearcher: construction and load_index                              *)

\* data.get(key, default) on a parsed JSON document, kept as
\* [parsable, keys, lemmas, has_embeddings].
json_get_lemmas(data) == IF "lemmas" \in data.keys THEN data.lemmas ELSE <<>>
json_get_has_embeddings(data) ==
  IF "has_embeddings" \in data.keys THEN data.has_embeddings ELSE FALSE

\* LemmaSearcher.load_index on `self`, given the files and the environment:
\* [raised, self, cache]. open() raises for a missing file and json.load for
\* an unparsable one, before anything is assigned; np.load raises for an
\* embeddings file it cannot read, after the lemmas are appended.
load_index(self, files, npys, unreadable, available, cache, seed) ==
  IF files[self.index_file] = None \/ ~files[self.index_file][1].parsable
    THEN [raised |-> TRUE, self |-> self, cache |-> cache]
    ELSE LET data   == files[self.index_file][1]
             loaded == [self EXCEPT !.lemmas = self.lemmas \o json_get_lemmas(data)]
             got    == get_sentence_transformer_model(
                         cache, self.config.search.embedding_model, available, seed)
         IN  IF json_get_has_embeddings(data) /\ self.use_embeddings
                  /\ npys[self.index_file] # None /\ available
               THEN IF self.index_file \in unreadable
                      THEN [raised |-> TRUE, self |-> loaded, cache |-> cache]
                      ELSE [raised |-> FALSE,
                            self   |-> [loaded EXCEPT !.embeddings = npys[self.index_file],
                                                      !.model = got[1]],
                            cache  |-> got[2]]
               ELSE [raised |-> FALSE, self |-> loaded, cache |-> cache]

\* LemmaSearcher.__init__: [raised, self, cache]; when load_index raises, the
\* constructor raises and returns no object.
new_searcher(index_file, use_embeddings, config, files, npys, unreadable, available, cache, seed) ==
  load_index([index_file     |-> index_file,
              lemmas         |-> <<>>,
              embeddings     |-> None,
              model          |-> None,
              use_embeddings |-> use_embeddings,
              config         |-> config],
             files, npys, unreadable, available, cache, seed)

----------------------------------------------------------------------------
(* LemmaIndexer (indexing.py): embeddings and the saved index              *)

\* model.encode(texts) in _compute_embeddings_if_needed: one row per lemma.
compute_embeddings(model, lemmas) ==
  [i \in 1..Len(lemmas) |-> encode(model, to_searchable_text(lemmas[i], TRUE))]

\* The JSON document save_index and merge_indexes write.
index_data(lemmas, embeddings) ==
  [parsable       |-> TRUE,
   keys           |-> {"version", "repo_root", "lemmas", "has_embeddings"},
   lemmas         |-> lemmas,
   has_embeddings |-> embeddings # None]

\* The index document is not parsable JSON, or has no top-level key "lemmas".
Malformed(document) ==
  document # None /\ (~document[1].parsable \/ "lemmas" \notin document[1].keys)

----------------------------------------------------------------------------
(* LemmaSearcher: lookup by name (not part of search.py; called by api.py  *)
(* and cli.py, and described in section 4.5 of the specification)          *)

\* get_lemma_by_name: the first lemma with exactly that name, or None.
get_lemma_by_name(self, name) ==
  IF \E i \in DOMAIN self.lemmas : self.lemmas[i].name = name
    THEN Some(self.lemmas[Minimum({i \in DOMAIN self.lemmas : self.lemmas[i].name = name})])
    ELSE None

\* find_similar_lemmas without the filter on the source lemma's name.
find_similar_lemmas_unfiltered(self, lemma_name, top_k) ==
  LET similar(source_lemma) ==
        IF source_lemma = None THEN <<>>
        ELSE slice_to(
               fuzzy_search(self, to_searchable_text(source_lemma[1], FALSE), top_k + 1),
               top_k)
  IN  similar(get_lemma_by_name(self, lemma_name))

\* find_similar_lemmas: fuzzy_search on the lemma's searchable text, the
\* source lemma filtered out by name, then truncated to top_k.
find_similar_lemmas(self, lemma_name, top_k) ==
  LET others(results) ==
        slice_to(SelectSeq(results, LAMBDA r : r[1].name # lemma_name), top_k)
      similar(source_lemma) ==
        IF source_lemma = None THEN <<>>
        ELSE others(fuzzy_search(self, to_searchable_text(source_lemma[1], FALSE),
                                 top_k + 1))
  IN  similar(get_lemma_by_name(self, lemma_name))

----------------------------------------------------------------------------
(* A search session: one engine, any sequence of calls                     *)

Query1 == <<"a"," ","t","i","m","e","s"," ","b">>
Query2 == <<"i","f"," ","a"," ","t","h","e","n"," ","b">>
Query3 == <<"l","e","m","m","a","_","m","o","d">>
Query4 == <<>>
Query5 == <<"b"," ","i","f"," ","a"," ","a","n","d"," ","c">>

Queries == {Query1, Query2, Query3, Query4, Query5}

\* The lemma names a caller asks for: those of the model, and an unknown one.
LemmaNames == {AllLemmas[i].name : i \in DOMAIN AllLemmas} \cup {<<"n","o","n","e">>}

TopKs == 0..MaxTopK

\* The keyword_weight argument of hybrid_search: omitted, or a weight in [0, 1].
KeywordWeights == {None, Some(<<1, 4>>), Some(<<1, 1>>)}

\* The lemma lists of the indexes a session is opened on.
IndexLists ==
  {SubSeq(AllLemmas, 1, n) :
     n \in 0..(IF MaxLemmas < Len(AllLemmas) THEN MaxLemmas ELSE Len(AllLemmas))}

\* How a session comes to have a matrix or not: the index was written with
\* or without embeddings, the caller asks for them or not, the library is
\* installed or not.
Modes ==
  {[with_embeddings |-> TRUE,  use_embeddings |-> TRUE,  available |-> TRUE],
   [with_embeddings |-> FALSE, use_embeddings |-> TRUE,  available |-> TRUE],
   [with_embeddings |-> TRUE,  use_embeddings |-> FALSE, available |-> TRUE],
   [with_embeddings |-> TRUE,  use_embeddings |-> TRUE,  available |-> FALSE]}

\* The index file and embeddings file save_index leaves at path 1, and the
\* engine LemmaSearcher(path 1) constructs from them.
OpenSession(lemmas, mode, config, seed) ==
  LET model      == SentenceTransformer(config.search.embedding_model, seed)
      embeddings == IF mode.with_embeddings
                      THEN Some(compute_embeddings(model, lemmas)) ELSE None
      files      == [p \in Paths |-> IF p = 1 THEN Some(index_data(lemmas, embeddings)) ELSE None]
      npys       == [p \in Paths |-> IF p = 1 THEN embeddings ELSE None]
  IN  [files |-> files, npys |-> npys,
       made  |-> new_searcher(1, mode.use_embeddings, config, files, npys, {},
                              mode.available, EmptyCache, seed)]

NoCall == [op |-> "none", query |-> <<>>, top_k |-> 0, keyword_weight |-> None]

Called(op, query, top_k, keyword_weight) ==
  [op |-> op, query |-> query, top_k |-> top_k, keyword_weight |-> keyword_weight]

\* An index written by save_index, with or without embeddings, and an engine
\* constructed on it.
Init ==
  /\ encoder_seed \in 1..MaxSeed
  /\ QuietEnvironment
  /\ indexer = None
  /\ call = NoCall
  /\ result = <<>>
  /\ \E lemmas \in IndexLists, mode \in Modes, config \in Configs :
       LET session == OpenSession(lemmas, mode, config, encoder_seed)
       IN  /\ EMBEDDINGS_AVAILABLE = mode.available
           /\ index_files = session.files
           /\ embeddings_files = session.npys
           /\ searcher = Some(session.made.self)
           /\ model_cache = session.made.cache
           /\ constructed = Some([index_file |-> 1,
                                   malformed  |-> FALSE,
                                   raised     |-> session.made.raised])

Session == <<EMBEDDINGS_AVAILABLE, encoder_seed, model_cache, index_files,
             embeddings_files, indexer, constructed, Environment>>

\* keyword_search sorting self.lemmas in place while it ranks them.
KeywordSearchSortingInPlace(query, top_k) ==
  /\ searcher # None
  /\ call = NoCall
  /\ call' = Called("keyword_search", query, top_k, None)
  /\ result' = keyword_search(searcher[1], query, top_k)
  /\ searcher' = Some([searcher[1] EXCEPT !.lemmas = reversed(@)])
  /\ UNCHANGED Session

KeywordSearch(query, top_k) ==
  /\ searcher # None
  /\ call = NoCall
  /\ call' = Called("keyword_search", query, top_k, None)
  /\ result' = keyword_search(searcher[1], query, top_k)
  /\ UNCHANGED <<searcher, Session>>

SemanticSearch(query, top_k) ==
  /\ searcher # None
  /\ call = NoCall
  /\ call' = Called("semantic_search", query, top_k, None)
  /\ result' = semantic_search(searcher[1], query, top_k)
  /\ UNCHANGED <<searcher, Session>>

HybridSearch(query, top_k, keyword_weight) ==
  /\ searcher # None
  /\ call = NoCall
  /\ call' = Called("hybrid_search", query, top_k, keyword_weight)
  /\ result' = hybrid_search(searcher[1], query, top_k, keyword_weight)
  /\ UNCHANGED <<searcher, Session>>

FuzzySearch(query, top_k) ==
  /\ searcher # None
  /\ call = NoCall
  /\ call' = Called("fuzzy_search", query, top_k, None)
  /\ result' = fuzzy_search(searcher[1], query, top_k)
  /\ UNCHANGED <<searcher, Session>>

Search(query, top_k) ==
  /\ searcher # None
  /\ call = NoCall
  /\ call' = Called("search", query, top_k, None)
  /\ result' = search(searcher[1], query, top_k)
  /\ UNCHANGED <<searcher, Session>>

FindSimilarLemmas(lemma_name, top_k) ==
  /\ searcher # None
  /\ call = NoCall
  /\ call' = Called("find_similar_lemmas", lemma_name, top_k, None)
  /\ result' = find_similar_lemmas(searcher[1], lemma_name, top_k)
  /\ UNCHANGED <<searcher, Session>>

\* The call returns: the caller has the result, and the engine is ready for
\* the next call.
Return ==
  /\ call # NoCall
  /\ call' = NoCall
  /\ result' = <<>>
  /\ UNCHANGED <<searcher, Session>>

Next ==
  \/ \E query \in Queries, top_k \in TopKs : KeywordSearch(query, top_k)
  \/ \E query \in Queries, top_k \in TopKs : SemanticSearch(query, top_k)
  \/ \E query \in Queries, top_k \in TopKs, w \in KeywordWeights :
       HybridSearch(query, top_k, w)
  \/ \E query \in Queries, top_k \in TopKs : FuzzySearch(query, top_k)
  \/ \E query \in Queries, top_k \in TopKs : Search(query, top_k)
  \/ \E name \in LemmaNames, top_k \in TopKs : FindSimilarLemmas(name, top_k)
  \/ Return

Spec == Init /\ [][Next]_vars

----------------------------------------------------------------------------
(* Properties of a search session                                          *)

HasMatrix == searcher # None /\ searcher[1].embeddings # None

SearchOps == {"keyword_search", "semantic_search", "hybrid_search", "fuzzy_search", "search"}

\* The scores of a result list do not increase along the list.
Descending(results) ==
  \A i, j \in DOMAIN results : i < j => FLeq(results[j][2], results[i][2])

\* The greatest fraction of a non-empty set of fractions.
FMax(S) == CHOOSE x \in S : \A y \in S : FLeq(y, x)

\* C1, as stated: on an engine without a matrix, search(q, k) returns the
\* list keyword_search(q, k) returns, for every q and k.
C1_SearchIsKeywordSearch ==
  (call.op = "search" /\ ~HasMatrix)
    => result = keyword_search(searcher[1], call.query, call.top_k)

\* C1, amended: on an engine without a matrix, search(q, k) returns the list
\* keyword_search(normalize(q), k) returns, for every q and k.
C1_SearchIsKeywordSearchOfNormalized ==
  (call.op = "search" /\ ~HasMatrix)
    => result = keyword_search(searcher[1], normalize(call.query), call.top_k)

C1_Witness ==
  /\ call.op = "search"
  /\ ~HasMatrix
  /\ normalize(call.query) # call.query
  /\ result # <<>>

\* C2: for a name present in the index, no entry of
\* find_similar_lemmas(name, top_k) has a lemma of that name.
C2_SimilarExcludesSource ==
  (call.op = "find_similar_lemmas" /\ get_lemma_by_name(searcher[1], call.query) # None)
    => \A i \in DOMAIN result : result[i][1].name # call.query

C2_Witness ==
  /\ call.op = "find_similar_lemmas"
  /\ get_lemma_by_name(searcher[1], call.query) # None
  /\ HasMatrix
  /\ result # <<>>
  /\ \E r \in Range(fuzzy_search(searcher[1],
                                 to_searchable_text(get_lemma_by_name(searcher[1], call.query)[1], FALSE),
                                 call.top_k + 1)) : r[1].name = call.query

\* C3: search(q, k) returns at most k results for every k >= 0, with and
\* without a matrix.
C3_SearchReturnsAtMostTopK ==
  call.op = "search" => Len(result) <= call.top_k

C3_Witness ==
  /\ call.op = "search"
  /\ HasMatrix
  /\ call.top_k > 0
  /\ Len(result) = call.top_k
  /\ Len(searcher[1].lemmas) > call.top_k

\* C4, as stated: with a matrix loaded and keyword_weight in [0, 1], every
\* score hybrid_search returns lies in [0, 1].
C4_HybridScoresInUnitInterval ==
  (call.op = "hybrid_search" /\ HasMatrix)
    => \A i \in DOMAIN result : FLeq(FZero, result[i][2]) /\ FLeq(result[i][2], FOne)

\* C5: with a matrix loaded, the score fuzzy_search(q, k) reports for a name
\* is the maximum over the variants v of generate_variations(normalize(q)) of
\* the score hybrid_search(v, 2k) reports for that name, and the list is the
\* first k of these entries by descending score.
C5_FuzzyKeepsMaximum ==
  (call.op = "fuzzy_search" /\ HasMatrix)
    => LET variants == Range(generate_variations(normalize(call.query)))
           hits     == UNION {Range(hybrid_search(searcher[1], v, 2 * call.top_k, None)) :
                                v \in variants}
           names    == {h[1].name : h \in hits}
           best(n)  == FMax({h[2] : h \in {g \in hits : g[1].name = n}})
           returned == {result[i][1].name : i \in DOMAIN result}
       IN  /\ returned \subseteq names
           /\ \A i \in DOMAIN result : result[i][2] = best(result[i][1].name)
           /\ \A i, j \in DOMAIN result : i # j => result[i][1].name # result[j][1].name
           /\ Len(result) = (IF Cardinality(names) < call.top_k
                               THEN Cardinality(names) ELSE call.top_k)
           /\ Descending(result)
           /\ \A n \in names \ returned :
                \A i \in DOMAIN result : FLeq(best(n), result[i][2])

C5_Witness ==
  /\ call.op = "fuzzy_search"
  /\ HasMatrix
  /\ result # <<>>
  /\ LET variants == Range(generate_variations(normalize(call.query)))
     IN  \E v, u \in variants : \E h \in Range(hybrid_search(searcher[1], v, 2 * call.top_k, None)) :
           \E g \in Range(hybrid_search(searcher[1], u, 2 * call.top_k, None)) :
             /\ h[1].name = g[1].name
             /\ FLess(g[2], h[2])
             /\ \E i \in DOMAIN result : result[i] = h

\* C6, as stated: with a matrix loaded, the score hybrid_search(q, k, w)
\* gives a lemma is s * (1 - w) + t * w, s its semantic score over the
\* maximum of the top-2k semantic list (0 if absent or the maximum is not
\* positive), t its keyword score over the maximum of the top-2k keyword
\* list (0 if absent); the list is the first k by descending score.
C6_HybridIsWeightedSum ==
  (call.op = "hybrid_search" /\ HasMatrix)
    => LET w   == IF call.keyword_weight = None
                    THEN searcher[1].config.search.keyword_weight
                    ELSE call.keyword_weight[1]
           sem == semantic_search(searcher[1], call.query, 2 * call.top_k)
           kw  == keyword_search(searcher[1], call.query, 2 * call.top_k)
           part(list, lemma) ==
             IF \E i \in DOMAIN list : list[i][1] = lemma
               THEN LET m == FMax({list[i][2] : i \in DOMAIN list})
                        x == (CHOOSE i \in DOMAIN list : list[i][1] = lemma)
                    IN  IF FLess(FZero, m) THEN FDiv(list[x][2], m) ELSE FZero
               ELSE FZero
           combined(lemma) ==
             FAdd(FMul(part(sem, lemma), FSub(FOne, w)), FMul(part(kw, lemma), w))
           candidates == {sem[i][1] : i \in DOMAIN sem} \cup {kw[i][1] : i \in DOMAIN kw}
       IN  /\ \A i \in DOMAIN result :
                result[i][1] \in candidates /\ result[i][2] = combined(result[i][1])
           /\ Descending(result)
           /\ Len(result) <= call.top_k

\* C7: keyword_search(q, k) returns the first k of the lemmas of positive
\* score in non-increasing score order, the score being the token overlap
\* with the searchable text, plus name_match_boost per query token that is a
\* substring of the lower-cased name, plus doc_match_boost per query token
\* that is a substring of the lower-cased documentation; no returned score is
\* zero or negative.
C7_KeywordSearchRanksPositiveScores ==
  call.op = "keyword_search"
    => LET lemmas == searcher[1].lemmas
           tokens == Range(findall_words(lower(call.query)))
           score(lemma) ==
             FAdd(FAdd(
               FInt(Cardinality(tokens \cap
                      Range(findall_words(lower(to_searchable_text(lemma, FALSE)))))),
               FMul(searcher[1].config.search.name_match_boost,
                    FInt(Cardinality({t \in tokens : Contains(lower(lemma.name), t)})))),
               FMul(searcher[1].config.search.doc_match_boost,
                    FInt(Cardinality({t \in tokens : Contains(lower(lemma.documentation), t)}))))
           positive == {i \in DOMAIN lemmas : FLess(FZero, score(lemmas[i]))}
       IN  /\ Len(result) = (IF Cardinality(positive) < call.top_k
                               THEN Cardinality(positive) ELSE call.top_k)
           /\ \A j \in DOMAIN result :
                /\ \E i \in positive : result[j] = <<lemmas[i], score(lemmas[i])>>
                /\ FLess(FZero, result[j][2])
           /\ \A j, l \in DOMAIN result : j # l => result[j][1] # result[l][1]
           /\ Descending(result)
           /\ \A i \in positive :
                \/ \E j \in DOMAIN result : result[j][1] = lemmas[i]
                \/ \A j \in DOMAIN result : FLeq(score(lemmas[i]), result[j][2])

C7_Witness ==
  /\ call.op = "keyword_search"
  /\ Len(result) = 2
  /\ FLess(result[2][2], result[1][2])
  /\ \E i \in DOMAIN searcher[1].lemmas :
       \A j \in DOMAIN result : result[j][1] # searcher[1].lemmas[i]
  /\ Len(keyword_search(searcher[1], call.query, Len(searcher[1].lemmas))) > 2

\* C9: every call of keyword_search, semantic_search, hybrid_search,
\* fuzzy_search or search leaves the engine's lemma list, matrix, encoder
\* handle and configuration as they were.
C9_SearchLeavesEngineUnchanged ==
  [][(call = NoCall /\ call'.op \in SearchOps)
       => /\ searcher'[1].lemmas = searcher[1].lemmas
          /\ searcher'[1].embeddings = searcher[1].embeddings
          /\ searcher'[1].model = searcher[1].model
          /\ searcher'[1].config = searcher[1].config]_vars

C9_Witness ==
  /\ call.op \in SearchOps
  /\ HasMatrix
  /\ searcher[1].model # None
  /\ result # <<>>

\* The engine of the session had its index been built, the same way, from
\* the retagged lemmas.
RetaggedEngine ==
  OpenSession([i \in DOMAIN searcher[1].lemmas |-> Retagged(searcher[1].lemmas[i])],
              [with_embeddings |-> index_files[1][1].has_embeddings,
               use_embeddings  |-> searcher[1].use_embeddings,
               available       |-> EMBEDDINGS_AVAILABLE],
              searcher[1].config, encoder_seed).made.self

NamesAndScores(results) ==
  [i \in DOMAIN results |-> <<results[i][1].name, results[i][2]>>]

\* C19: keyword_search, hybrid_search and fuzzy_search return the same
\* sequence of lemma names and scores on an index and on the index that
\* differs from it only in the source tag, file_path, line_number and
\* symbol_id of its lemmas.
C19_ScoresIgnoreProvenance ==
  call.op \in {"keyword_search", "hybrid_search", "fuzzy_search"}
    => NamesAndScores(result) =
         NamesAndScores(
           CASE call.op = "keyword_search" ->
                  keyword_search(RetaggedEngine, call.query, call.top_k)
             [] call.op = "hybrid_search" ->
                  hybrid_search(RetaggedEngine, call.query, call.top_k, call.keyword_weight)
             [] call.op = "fuzzy_search" ->
                  fuzzy_search(RetaggedEngine, call.query, call.top_k))

C19_Witness ==
  /\ call.op = "fuzzy_search"
  /\ HasMatrix
  /\ Len(result) >= 2
  /\ result[1][1].source # result[2][1].source
  /\ RetaggedEngine.lemmas # searcher[1].lemmas
  /\ RetaggedEngine.embeddings = searcher[1].embeddings

\* C22: without a matrix, fuzzy_search(q, k) is the lexical search of
\* normalize(q), run once and returned as it is: the other variations of the
\* normalized query have no part in the result.
C22_FuzzyIsOneLexicalSearch ==
  (call.op = "fuzzy_search" /\ ~HasMatrix)
    => result = keyword_search(searcher[1], normalize(call.query), call.top_k)

\* fuzzy_search has returned lemmas on an engine without a matrix, for a
\* query whose normalized form has another variation, and the lexical search
\* of that variation returns something else.
C22_Witness ==
  /\ call.op = "fuzzy_search"
  /\ ~HasMatrix
  /\ result # <<>>
  /\ LET others(variations) ==
           \E i \in 2..Len(variations) :
             keyword_search(searcher[1], variations[i], call.top_k) # result
     IN  others(generate_variations(normalize(call.query)))

\* The lemma names of a result list, in order.
ResultNames(results) == [i \in DOMAIN results |-> results[i][1].name]

\* C28: with a matrix loaded, no two entries of a list returned by
\* hybrid_search, fuzzy_search or search carry the same lemma name, also when
\* the index holds several distinct lemmas of that name.
C28_NamesUniqueWithMatrix ==
  (call.op \in {"hybrid_search", "fuzzy_search", "search"} /\ HasMatrix)
    => \A i, j \in DOMAIN result : i # j => result[i][1].name # result[j][1].name

\* An engine with a matrix whose index holds two distinct lemmas of one name
\* has answered: the name is in the result once, while keyword_search
\* returns both lemmas for the query.
C28_Witness ==
  /\ call.op \in {"hybrid_search", "fuzzy_search", "search"}
  /\ HasMatrix
  /\ Lemma2.name = Lemma3.name
  /\ \E i, j \in DOMAIN searcher[1].lemmas :
       searcher[1].lemmas[i] = Lemma2 /\ searcher[1].lemmas[j] = Lemma3
  /\ Lemma2.name \in Range(ResultNames(result))
  /\ LET both(lexical) ==
           \E i, j \in DOMAIN lexical : lexical[i][1] = Lemma2 /\ lexical[j][1] = Lemma3
     IN  both(keyword_search(searcher[1], call.query, 2 * MaxTopK))

----------------------------------------------------------------------------
(* LemmaIndexer (indexing.py): from SCIP data to the saved index           *)

\* str.startswith
startswith(s, prefix) == OccursAt(s, prefix, 1)

\* The SCIP data of the model. Each symbol has the keys the indexer reads;
\* signature_documentation.relative_path is None where the key is absent.
SymbolLemmaAdd ==
  [symbol |-> "a1", display_name |-> <<"l","e","m","m","a","_","a","d","d">>, kind |-> 17,
   documentation |-> <<<<"a"," ","p","l","u","s"," ","b">>>>,
   signature_documentation |-> [text |-> <<"f","n","(","a",")">>, relative_path |-> None]]

SymbolHelper ==
  [symbol |-> "a2", display_name |-> <<"h","e","l","p","e","r">>, kind |-> 17,
   documentation |-> <<>>,
   signature_documentation |-> [text |-> <<"f","n","(",")">>, relative_path |-> None]]

SymbolStruct ==
  [symbol |-> "a3", display_name |-> <<"s","p","e","c","_","t">>, kind |-> 7,
   documentation |-> <<>>,
   signature_documentation |-> [text |-> <<>>, relative_path |-> None]]

SymbolPow ==
  [symbol |-> "b1", display_name |-> <<"p","o","w","2">>, kind |-> 17,
   documentation |-> <<<<"x">>, <<"m","o","d"," ","y">>>>,
   signature_documentation |->
     [text |-> <<"p","r","o","o","f"," ","f","n","(",")">>,
      relative_path |-> Some(<<"v","s","t","d","/","p",".","r","s">>)]]

SymbolMain ==
  [symbol |-> "c1", display_name |-> <<"l","e","m","m","a","_","m","a","i","n">>, kind |-> 17,
   documentation |-> <<>>,
   signature_documentation |-> [text |-> <<"f","n","(",")">>, relative_path |-> None]]

ScipDocuments ==
  <<[relative_path |-> <<"s","p","e","c","s","/","a",".","r","s">>,
     occurrences   |-> <<[symbol |-> "a1", symbol_roles |-> 1, range |-> <<4, 0, 9>>],
                         [symbol |-> "a2", symbol_roles |-> 0, range |-> <<6, 0, 6>>],
                         [symbol |-> "a1", symbol_roles |-> 0, range |-> <<8, 2, 11>>]>>,
     symbols       |-> <<SymbolLemmaAdd, SymbolHelper, SymbolStruct>>],
    [relative_path |-> <<"v","s","t","d","/","m",".","r","s">>,
     occurrences   |-> <<>>,
     symbols       |-> <<SymbolPow>>],
    [relative_path |-> <<"m","a","i","n",".","r","s">>,
     occurrences   |-> <<[symbol |-> "c1", symbol_roles |-> 1, range |-> <<0, 0, 10>>]>>,
     symbols       |-> <<SymbolMain>>]>>

\* SpecExtractor.extract_specs_for_function on the source files of the
\* indexed repository: what the files of the model hold for each function.
extract_specs_for_function(file_path, name) ==
  IF file_path = <<"s","p","e","c","s","/","a",".","r","s">> /\ name = <<"l","e","m","m","a","_","a","d","d">>
    THEN <<<<<<"a"," ",">"," ","0">>>>, <<<<"a"," ","+"," ","b"," ",">"," ","b">>>>, Some(5)>>
  ELSE IF file_path = <<"v","s","t","d","/","p",".","r","s">> /\ name = <<"p","o","w","2">>
    THEN <<<<>>, <<<<"x"," ","%"," ","y"," ","<"," ","y">>>>, Some(2)>>
  ELSE <<<<>>, <<>>, None>>

\* LemmaIndexer.__init__: <<the indexer, the model cache after it>>.
new_indexer(use_embeddings, source, path_filter, config, available, cache, seed) ==
  LET got  == get_sentence_transformer_model(cache, config.indexing.embedding_model,
                                             available, seed)
      self == [config         |-> config,
               lemmas         |-> <<>>,
               use_embeddings |-> use_embeddings,
               embeddings     |-> None,
               model          |-> None,
               source         |-> source,
               path_filter    |-> path_filter]
  IN  IF use_embeddings
        THEN IF ~available THEN <<[self EXCEPT !.use_embeddings = FALSE], cache>>
             ELSE <<[self EXCEPT !.model = got[1]], got[2]>>
        ELSE <<self, cache>>

\* LemmaIndexer._extract_line_numbers_from_occurrences: the line (1-indexed)
\* of the last definition occurrence of symbol_id, None if it has none.
doc_line_map_get(self, occurrences, symbol_id) ==
  LET defs == {i \in DOMAIN occurrences :
                 /\ occurrences[i].symbol = symbol_id
                 /\ occurrences[i].symbol_roles = self.config.indexing.scip_definition_role
                 /\ occurrences[i].range # <<>>}
  IN  IF defs = {} THEN None
      ELSE Some(occurrences[CHOOSE i \in defs : \A j \in defs : j <= i].range[1] + 1)

\* LemmaIndexer._should_index_document
should_index_document(self, path) ==
  IF self.path_filter # None /\ self.path_filter[1] # <<>>
    THEN startswith(path, self.path_filter[1])
    ELSE \E i \in DOMAIN self.config.indexing.lemma_file_keywords :
           Contains(path, self.config.indexing.lemma_file_keywords[i])

\* LemmaIndexer._should_index_symbol
should_index_symbol(self, symbol, name) ==
  IF symbol.kind # self.config.indexing.scip_function_kind THEN FALSE
  ELSE IF \E i \in DOMAIN self.config.indexing.lemma_function_prefixes :
            Contains(name, self.config.indexing.lemma_function_prefixes[i])
    THEN TRUE
    ELSE Contains(symbol.signature_documentation.text, <<"p","r","o","o","f">>)

\* LemmaIndexer._create_lemma_from_symbol
create_lemma_from_symbol(self, symbol, occurrences, default_path) ==
  LET sig_doc   == symbol.signature_documentation
      file_path == IF sig_doc.relative_path = None THEN default_path
                   ELSE sig_doc.relative_path[1]
      line_num  == doc_line_map_get(self, occurrences, symbol.symbol)
      specs     == extract_specs_for_function(file_path, symbol.display_name)
  IN  [name             |-> symbol.display_name,
       file_path        |-> file_path,
       line_number      |-> IF line_num = None THEN specs[3] ELSE line_num,
       documentation    |-> join(<<" ">>, symbol.documentation),
       signature        |-> sig_doc.text,
       requires_clauses |-> specs[1],
       ensures_clauses  |-> specs[2],
       symbol_id        |-> symbol.symbol,
       source           |-> self.source]

\* The lemmas build_index makes of one document.
index_document(self, doc) ==
  IF ~should_index_document(self, doc.relative_path) THEN <<>>
  ELSE LET kept == SelectSeq(doc.symbols,
                             LAMBDA symbol : should_index_symbol(self, symbol, symbol.display_name))
       IN  [i \in DOMAIN kept |->
              create_lemma_from_symbol(self, kept[i], doc.occurrences, doc.relative_path)]

RECURSIVE index_documents(_, _, _)
\* The loop of build_index over the documents from index i.
index_documents(self, documents, i) ==
  IF i > Len(documents) THEN <<>>
  ELSE index_document(self, documents[i]) \o index_documents(self, documents, i + 1)

\* LemmaIndexer._compute_embeddings_if_needed
compute_embeddings_if_needed(self) ==
  IF ~(self.use_embeddings /\ self.model # None) THEN self
  ELSE [self EXCEPT !.embeddings = Some(compute_embeddings(self.model[1], self.lemmas))]

\* LemmaIndexer.build_index
build_index(self, documents) ==
  compute_embeddings_if_needed(
    [self EXCEPT !.lemmas = self.lemmas \o index_documents(self, documents, 1)])

\* LemmaInfo.to_dict and LemmaInfo(**lemma_dict): field by field.
to_dict(lemma) ==
  [name |-> lemma.name, file_path |-> lemma.file_path, line_number |-> lemma.line_number,
   documentation |-> lemma.documentation, signature |-> lemma.signature,
   requires_clauses |-> lemma.requires_clauses, ensures_clauses |-> lemma.ensures_clauses,
   symbol_id |-> lemma.symbol_id, source |-> lemma.source]

\* LemmaIndexer.save_index: <<the index file, the embeddings file>> at
\* output_file; the embeddings file is written only with embeddings.
save_index(self, old_npy) ==
  <<Some(index_data([i \in DOMAIN self.lemmas |-> to_dict(self.lemmas[i])], self.embeddings)),
    IF self.embeddings # None THEN self.embeddings ELSE old_npy>>

\* np.vstack
vstack(a, b) == a \o b

\* merge_indexes: [raised, index, npy], the two files at output_file.
merge_indexes(base, base_npy, new_lemmas, embeddings_array, old_npy, available) ==
  IF base = None \/ ~base[1].parsable
    THEN [raised |-> TRUE, index |-> None, npy |-> old_npy]
    ELSE LET base_lemmas       == json_get_lemmas(base[1])
             base_embeddings   == IF base_npy # None /\ available THEN base_npy ELSE None
             all_lemmas        == base_lemmas \o new_lemmas
             merged_embeddings == IF base_embeddings # None /\ embeddings_array # None
                                    THEN Some(vstack(base_embeddings[1], embeddings_array[1]))
                                    ELSE None
         IN  [raised |-> FALSE,
              index  |-> Some(index_data([i \in DOMAIN all_lemmas |-> to_dict(all_lemmas[i])],
                                         merged_embeddings)),
              npy    |-> IF merged_embeddings # None THEN merged_embeddings ELSE old_npy]

----------------------------------------------------------------------------
(* The life of an index: built, saved, merged, loaded. The caller works on  *)
(* one object at a time, as the commands of cli.py do: making an indexer    *)
(* drops the engine, and making an engine drops the indexer.                *)

\* Config(): the defaults, as get_config() returns them.
DefaultConfig == [search |-> DefaultSearchConfig, indexing |-> DefaultIndexingConfig]

\* The indexers of cli.py: cmd_index on the project, without --path-filter
\* and with --path-filter "", and cmd_add_vstd on vstd.
IndexerProfiles ==
  {[source |-> "project", path_filter |-> None],
   [source |-> "project", path_filter |-> Some(<<>>)],
   [source |-> "vstd",    path_filter |-> Some(<<"v","s","t","d">>)]}

\* Files at an index path that save_index did not write: text that is not
\* JSON, and a JSON object without the key "lemmas".
ForeignDocuments ==
  {[parsable |-> FALSE, keys |-> {}, lemmas |-> <<>>, has_embeddings |-> FALSE],
   [parsable |-> TRUE, keys |-> {"version"}, lemmas |-> <<>>, has_embeddings |-> FALSE]}

InitIndex ==
  /\ EMBEDDINGS_AVAILABLE \in BOOLEAN
  /\ QuietEnvironment
  /\ encoder_seed = MaxSeed
  /\ model_cache = EmptyCache
  /\ index_files = [p \in Paths |-> None]
  /\ embeddings_files = [p \in Paths |-> None]
  /\ indexer = None
  /\ searcher = None
  /\ constructed = None
  /\ call = NoCall
  /\ result = <<>>

\* indexer = LemmaIndexer(scip_file, repo_root, use_embeddings, source, path_filter)
NewIndexer(use_embeddings, profile) ==
  LET made == new_indexer(use_embeddings, profile.source, profile.path_filter,
                          DefaultConfig, EMBEDDINGS_AVAILABLE, model_cache, encoder_seed)
  IN  /\ indexer' = Some(made[1])
      /\ model_cache' = made[2]
      /\ searcher' = None
      /\ constructed' = None
      /\ UNCHANGED <<Environment, EMBEDDINGS_AVAILABLE, encoder_seed, index_files, embeddings_files,
                     call, result>>

\* indexer.build_index()
BuildIndex ==
  /\ indexer # None
  /\ Len(build_index(indexer[1], ScipDocuments).lemmas) <= MaxIndexed
  /\ indexer' = Some(build_index(indexer[1], ScipDocuments))
  /\ UNCHANGED <<Environment, EMBEDDINGS_AVAILABLE, encoder_seed, model_cache, index_files,
                 embeddings_files, searcher, constructed, call, result>>

\* indexer.save_index(output_file)
SaveIndex(output_file) ==
  /\ indexer # None
  /\ LET saved == save_index(indexer[1], embeddings_files[output_file])
     IN  /\ index_files' = [index_files EXCEPT ![output_file] = saved[1]]
         /\ embeddings_files' = [embeddings_files EXCEPT ![output_file] = saved[2]]
  /\ UNCHANGED <<Environment, EMBEDDINGS_AVAILABLE, encoder_seed, model_cache, indexer, searcher,
                 constructed, call, result>>

\* merge_indexes(base_index, indexer.lemmas, output, indexer.embeddings), as
\* cmd_add_vstd calls it; when it raises, no file is written.
MergeIndexes(base_index_file, output_file) ==
  /\ indexer # None
  /\ LET merged == merge_indexes(index_files[base_index_file],
                                 embeddings_files[base_index_file],
                                 indexer[1].lemmas, indexer[1].embeddings,
                                 embeddings_files[output_file], EMBEDDINGS_AVAILABLE)
     IN  /\ ~merged.raised => Len(merged.index[1].lemmas) <= MaxIndexed
         /\ merged.npy # None => Len(merged.npy[1]) <= MaxIndexed
         /\ index_files' = IF merged.raised THEN index_files
                           ELSE [index_files EXCEPT ![output_file] = merged.index]
         /\ embeddings_files' = [embeddings_files EXCEPT ![output_file] = merged.npy]
  /\ UNCHANGED <<Environment, EMBEDDINGS_AVAILABLE, encoder_seed, model_cache, indexer, searcher,
                 constructed, call, result>>

\* searcher = LemmaSearcher(index_file, use_embeddings); a file that does not
\* exist raises like one that does not parse.
NewSearcher(index_file, use_embeddings) ==
  LET made == new_searcher(index_file, use_embeddings, DefaultConfig, index_files,
                           embeddings_files, unreadable_npys, EMBEDDINGS_AVAILABLE,
                           model_cache, encoder_seed)
      returned == IF made.raised THEN None ELSE Some(made.self)
  IN  /\ searcher' = returned
      /\ model_cache' = made.cache
      /\ constructed' = Some([index_file |-> index_file,
                              malformed  |-> Malformed(index_files[index_file]),
                              raised     |-> made.raised])
      /\ indexer' = None
      /\ UNCHANGED <<Environment, EMBEDDINGS_AVAILABLE, encoder_seed, index_files, embeddings_files,
                     call, result>>

\* searcher.load_index(), called again on a constructed engine; when it
\* raises, the engine is as it was.
LoadIndex ==
  /\ searcher # None
  /\ LET loaded == load_index(searcher[1], index_files, embeddings_files, unreadable_npys,
                              EMBEDDINGS_AVAILABLE, model_cache, encoder_seed)
     IN  /\ Len(loaded.self.lemmas) <= MaxIndexed
         /\ searcher' = Some(loaded.self)
         /\ model_cache' = loaded.cache
  /\ UNCHANGED <<Environment, EMBEDDINGS_AVAILABLE, encoder_seed, index_files, embeddings_files,
                 indexer, constructed, call, result>>

\* Something else writes the file at an index path.
WriteForeign(index_file, document) ==
  /\ index_files' = [index_files EXCEPT ![index_file] = Some(document)]
  /\ UNCHANGED <<Environment, EMBEDDINGS_AVAILABLE, encoder_seed, model_cache, embeddings_files,
                 indexer, searcher, constructed, call, result>>

NextIndex ==
  \/ \E use_embeddings \in BOOLEAN, profile \in IndexerProfiles :
       NewIndexer(use_embeddings, profile)
  \/ BuildIndex
  \/ \E output_file \in Paths : SaveIndex(output_file)
  \/ \E base_index_file \in Paths, output_file \in Paths :
       MergeIndexes(base_index_file, output_file)
  \/ \E index_file \in Paths, use_embeddings \in BOOLEAN :
       NewSearcher(index_file, use_embeddings)
  \/ LoadIndex
  \/ \E index_file \in Paths, document \in ForeignDocuments :
       WriteForeign(index_file, document)

SpecIndex == InitIndex /\ [][NextIndex]_vars

\* The row model.encode computes for a lemma when the index is built.
EmbeddingOf(lemma) ==
  encode(SentenceTransformer(DefaultConfig.indexing.embedding_model, encoder_seed),
         to_searchable_text(lemma, TRUE))

\* C8, as stated: after any sequence of build_index, save_index,
\* merge_indexes and load_index, an engine that holds a matrix holds one with
\* len(lemmas) rows, row i the embedding computed for lemmas[i].
C8_MatrixRowsMatchLemmas ==
  HasMatrix
    => /\ Len(searcher[1].embeddings[1]) = Len(searcher[1].lemmas)
       /\ \A i \in DOMAIN searcher[1].lemmas :
            searcher[1].embeddings[1][i] = EmbeddingOf(searcher[1].lemmas[i])

\* C10, as stated: constructing an engine from a document that is not
\* parsable JSON or has no top-level key "lemmas" fails with an error, and no
\* engine is returned.
C10_MalformedIndexFailsConstruction ==
  (constructed # None /\ constructed[1].malformed)
    => constructed[1].raised /\ searcher = None

\* C20, as stated: an indexer given the empty string as path_filter takes
\* every document of the SCIP data: _should_index_document is true of every
\* path.
C20_EmptyPathFilterIndexesAllDocuments ==
  (indexer # None /\ indexer[1].path_filter = Some(<<>>))
    => \A i \in DOMAIN ScipDocuments :
         should_index_document(indexer[1], ScipDocuments[i].relative_path)

----------------------------------------------------------------------------
(* The query normaliser on its own: normalize, normalize_operators_only and *)
(* generate_variations applied to texts of a few words                      *)

\* The words of the texts handed to normalize_operators_only: the rewrite
\* vocabulary in several letter cases, what the rules produce, and words
\* that only contain a keyword.
OperatorWords ==
  {<<"t","i","m","e","s">>,
   <<"M","u","l">>,
   <<"m","u","l","t","i","p","l","y">>,
   <<"d","i","v">>,
   <<"d","i","v","i","d","e">>,
   <<"m","o","d","u","l","o">>,
   <<"w","h","e","n">>,
   <<"I","F","F">>,
   <<"l","e","q">>,
   <<"g","e","q">>,
   <<"n","e","q">>,
   <<"m","o","d">>,
   <<"i","f">>,
   <<"x","_","t","i","m","e","s">>,
   <<"m","u","l","*","T","i","m","e","s">>,
   <<"a">>}

\* The words of the texts handed to normalize: single letters, alone and
\* next to an operator, and keywords.
VariableWords ==
  {<<"a">>,
   <<"A">>,
   <<"b">>,
   <<"c">>,
   <<"a"," ","*">>,
   <<"*"," ","b">>,
   <<"b"," ","<","=">>,
   <<"<","="," ","c">>,
   <<"i","f">>,
   <<"t","h","e","n">>,
   <<"a","n","d">>,
   <<"i","f","f">>,
   <<"w","h","e","n">>,
   <<"t","i","m","e","s">>}

\* The words of the texts handed to generate_variations.
VariationWords ==
  {<<"a">>,
   <<"b">>,
   <<"i","f">>,
   <<"t","h","e","n">>,
   <<"t","h","e","n"," ","b">>,
   <<"m","o","d">>,
   <<"%">>,
   <<"a"," ","a","n","d"," ","a">>,
   <<"a"," ","a","n","d"," ","b">>}

\* The words of the texts about mod and % handed to generate_variations:
\* the word in three letter cases, inside longer words, and the symbol.
ModWords ==
  {<<"a">>,
   <<"m","o","d">>,
   <<"M","O","D">>,
   <<"M","o","d">>,
   <<"m","o","d","u","l","o">>,
   <<"x","_","m","o","d">>,
   <<"%">>}

\* The clauses of the implications handed to generate_variations: none
\* holds the word if, then or and; some hold those letters inside a word.
Clauses ==
  {<<"a">>,
   <<"b">>,
   <<"a"," ","<"," ","b">>,
   <<"m","o","t","i","f">>,
   <<"i","f","f","y"," ","a">>,
   <<"l","e","n","g","t","h","e","n">>}

\* "if A then B"
IfThen(A, B) == W_if \o <<" ">> \o A \o <<" ">> \o W_then \o <<" ">> \o B

\* "B if A"
BackIf(A, B) == B \o <<" ">> \o W_if \o <<" ">> \o A

\* The implications of two clauses, in both forms.
ImplicationTexts ==
  {IfThen(A, B) : A \in Clauses, B \in Clauses} \cup {BackIf(A, B) : A \in Clauses, B \in Clauses}

MaxOperatorWords == 3
MaxVariableWords == 3
MaxVariationWords == 4
MaxModWords == 3

RECURSIVE WordTexts(_, _)
\* The texts of at most n of the words, joined by single spaces.
WordTexts(words, n) ==
  IF n = 0 THEN {<<>>}
  ELSE LET shorter == WordTexts(words, n - 1)
       IN  shorter \cup {IF t = <<>> THEN w ELSE t \o <<" ">> \o w : t \in shorter, w \in words}

OperatorTexts == WordTexts(OperatorWords, MaxOperatorWords)
VariableTexts == WordTexts(VariableWords, MaxVariableWords)
VariationTexts == WordTexts(VariationWords, MaxVariationWords)
ModTexts == WordTexts(ModWords, MaxModWords)

\* A normaliser and nothing else: no index, no engine.
InitNormalizer ==
  /\ EMBEDDINGS_AVAILABLE = FALSE
  /\ encoder_seed = 1
  /\ model_cache = EmptyCache
  /\ index_files = [p \in Paths |-> None]
  /\ embeddings_files = [p \in Paths |-> None]
  /\ QuietEnvironment
  /\ indexer = None
  /\ searcher = None
  /\ constructed = None
  /\ call = NoCall
  /\ result = <<>>

\* QueryNormalizer().normalize(query)
Normalize(query) ==
  /\ call = NoCall
  /\ call' = Called("normalize", query, 0, None)
  /\ result' = normalize(query)
  /\ UNCHANGED <<searcher, Session>>

\* QueryNormalizer().normalize_operators_only(text)
NormalizeOperatorsOnly(text) ==
  /\ call = NoCall
  /\ call' = Called("normalize_operators_only", text, 0, None)
  /\ result' = normalize_operators_only(text)
  /\ UNCHANGED <<searcher, Session>>

\* QueryNormalizer().generate_variations(query)
GenerateVariations(query) ==
  /\ call = NoCall
  /\ call' = Called("generate_variations", query, 0, None)
  /\ result' = generate_variations(query)
  /\ UNCHANGED <<searcher, Session>>

NextNormalizer ==
  \/ call = NoCall /\ \E query \in VariableTexts : Normalize(query)
  \/ call = NoCall /\ \E text \in OperatorTexts : NormalizeOperatorsOnly(text)
  \/ call = NoCall /\ \E query \in VariationTexts \cup ModTexts \cup ImplicationTexts :
                        GenerateVariations(query)
  \/ Return

SpecNormalizer == InitNormalizer /\ [][NextNormalizer]_vars

\* The list generate_variations builds before it removes duplicates.
all_variations(query) ==
  <<query>> \o mod_variations(query) \o forward_variations(query)
    \o backward_variations(query)

\* C16: for every query, the empty one included, generate_variations(q)
\* returns a sequence without duplicates whose first element is q.
C16_VariationsUniqueOriginalFirst ==
  call.op = "generate_variations"
    => /\ Len(result) >= 1
       /\ result[1] = call.query
       /\ \A i, j \in DOMAIN result : i # j => result[i] # result[j]

C16_Witness ==
  /\ call.op = "generate_variations"
  /\ Len(result) >= 2
  /\ Len(result) < Len(all_variations(call.query))

\* A renaming of single-letter variables that keeps their alphabetical order.
Renamings ==
  {[c \in {"a", "b", "c"} |-> CASE c = "a" -> "x" [] c = "b" -> "y" [] c = "c" -> "z"],
   [c \in {"a", "b", "c"} |-> CASE c = "a" -> "b" [] c = "b" -> "c" [] c = "c" -> "x"]}

\* The query with every single-letter word in the domain of the renaming
\* replaced by its image, all at once.
Renamed(query, renaming) ==
  [i \in 1..Len(query) |->
     IF query[i] \in DOMAIN renaming /\ Boundary(query, i) /\ Boundary(query, i + 1)
       THEN renaming[query[i]] ELSE query[i]]

Q_abc == <<"a"," ","*"," ","b"," ","<","="," ","c">>
Q_normal == <<"v","a","r","1"," ","*"," ","v","a","r","2"," ","<","="," ","v","a","r","3">>

\* C17, as stated: normalize maps a query and the same query with its
\* single-letter variables renamed, bijectively and in alphabetical order, to
\* one string; and normalize("a * b <= c") is "var1 * var2 <= var3".
C17_NormalizeIgnoresVariableNames ==
  call.op = "normalize"
    => /\ \A renaming \in Renamings : normalize(Renamed(call.query, renaming)) = result
       /\ call.query = Q_abc => result = Q_normal

\* C18: normalize_operators_only applied to its own result changes nothing,
\* and applying the rules of the table in the opposite order gives the same
\* result, for texts built from the rewrite vocabulary in any letter case.
C18_OperatorsOnlyIdempotent ==
  call.op = "normalize_operators_only"
    => /\ normalize_operators_only(result) = result
       /\ apply_replacements(call.query, reversed(math_replacements)) = result

C18_Witness ==
  /\ call.op = "normalize_operators_only"
  /\ Contains(call.query, <<"I","F","F">>)
  /\ Contains(call.query, <<"m","o","d","u","l","o">>)
  /\ Contains(result, <<"i","f"," ","a","n","d"," ","o","n","l","y"," ","i","f">>)
  /\ ~Contains(result, <<"m","o","d","u","l","o">>)

\* The text holds the word as a whole word, in any letter case.
HasWord(text, word) == WordMatchesFrom(text, word, 1) # {}

\* C23, as stated: for a query with the word "mod" (whole word, any letter
\* case) and no '%', generate_variations returns the query with each word
\* "mod" replaced by "%" and nothing else changed; for a query with '%' and
\* without the word "mod", it returns the query with each '%' replaced by
\* "mod".
C23_ModPercentVariants ==
  call.op = "generate_variations"
    => /\ (HasWord(call.query, W_mod) /\ ~Contains(call.query, <<"%">>))
            => sub_word(call.query, W_mod, <<"%">>) \in Range(result)
       /\ (Contains(call.query, <<"%">>) /\ ~HasWord(call.query, W_mod))
            => str_replace(call.query, <<"%">>, W_mod) \in Range(result)

\* The query matches the forward pattern (if <condition> then <conclusion>).
MatchesForward(query) == if_then_search(query) # NoMatch

\* The query matches the backward pattern (<conclusion> if <condition>).
MatchesBackward(query) == backward_if_search(query) # NoMatch

\* C24, as stated: some query matches both the forward and the backward
\* pattern and has more than 4 variations.
C24_BothPatternsMoreThanFour ==
  call = NoCall
    => \E query \in VariationTexts :
         /\ MatchesForward(query)
         /\ MatchesBackward(query)
         /\ Len(generate_variations(query)) > 4

\* C24, amended: a query that matches the forward pattern has at most 3
\* variations, whether it matches the backward pattern or not; a query with
\* more than 4 variations has exactly 5, matches the backward pattern and
\* does not match the forward one.
C24_ForwardFormAtMostThree ==
  call.op = "generate_variations"
    => /\ MatchesForward(call.query) => Len(result) <= 3
       /\ Len(result) > 4
            => /\ Len(result) = 5
               /\ MatchesBackward(call.query)
               /\ ~MatchesForward(call.query)

\* generate_variations has returned for a query that matches both patterns
\* and holds "mod": the query, its % form and the reversed implication.
C24_Witness ==
  /\ call.op = "generate_variations"
  /\ MatchesForward(call.query)
  /\ MatchesBackward(call.query)
  /\ Len(result) = 3

\* A single letter stands at index i of the text as a whole word.
IsLetterWord(text, i) ==
  /\ LowerChar(text[i]) \in LowerLetters
  /\ (i = 1 \/ ~IsWordChar(text[i - 1]))
  /\ (i = Len(text) \/ ~IsWordChar(text[i + 1]))

\* The word stands at index k of the text and ends there as a word.
WordAt(text, word, k) ==
  /\ k + Len(word) - 1 <= Len(text)
  /\ \A n \in 1..Len(word) : LowerChar(text[k + n - 1]) = word[n]
  /\ (k + Len(word) > Len(text) \/ ~IsWordChar(text[k + Len(word)]))

\* The letter word at index i is followed, after optional whitespace, by an
\* operator character, or after whitespace by the word if or then.
BeforeOperator(text, i) ==
  \E k \in (i + 1)..Len(text) :
    /\ \A n \in (i + 1)..(k - 1) : IsSpace(text[n])
    /\ \/ text[k] \in OperatorChars
       \/ k > i + 1 /\ (WordAt(text, W_if, k) \/ WordAt(text, W_then, k))

\* The letters, in lower case, that occur in such a position.
CollectedLetters(text) ==
  {LowerChar(text[i]) : i \in {n \in 1..Len(text) : IsLetterWord(text, n) /\ BeforeOperator(text, n)}}

\* The place of a collected letter in the alphabetical order of the collected.
AlphabeticalRank(letters, c) ==
  Cardinality({d \in letters : CodeOf[d] <= CodeOf[c]})

RECURSIVE RenamedFrom(_, _, _)
\* The text from index i on, each letter word of a collected letter replaced
\* by var<k>, all at once.
RenamedFrom(text, letters, i) ==
  IF i > Len(text) THEN <<>>
  ELSE (IF IsLetterWord(text, i) /\ LowerChar(text[i]) \in letters
          THEN W_var \o int_to_str(AlphabeticalRank(letters, LowerChar(text[i])))
          ELSE <<text[i]>>)
       \o RenamedFrom(text, letters, i + 1)

\* C25: normalize renames the k-th, in alphabetical order, of the letters
\* that stand before an operator character or before if or then (after the
\* operator words are rewritten, in either letter case) to var<k> at every
\* whole-word occurrence; every other character is left as it is.
C25_VariablesRenamedAlphabetically ==
  call.op = "normalize"
    => LET renamed(text) == RenamedFrom(text, CollectedLetters(text), 1)
       IN  result = renamed(normalize_operators(call.query))

\* normalize has renamed two letters, the first found of which is not the
\* first of the alphabet, and has left another letter word alone.
C25_Witness ==
  /\ call.op = "normalize"
  /\ LET collected(text) ==
           /\ Cardinality(CollectedLetters(text)) = 2
           /\ variables_found(text)[1] # sort_letters(dedup_lower(variables_found(text), <<>>))[1]
           /\ \E i \in DOMAIN text :
                IsLetterWord(text, i) /\ LowerChar(text[i]) \notin CollectedLetters(text)
     IN  collected(normalize_operators(call.query))
  /\ Contains(result, W_var \o <<"2">>)
  /\ result # call.query

\* C26: normalize applied to its own result changes nothing, for queries of
\* operator words, single letters, if, then, and, and operator symbols.
C26_NormalizeIdempotent ==
  call.op = "normalize" => normalize(result) = result

\* normalize has rewritten an operator word and renamed a letter, and a second
\* pass leaves its result as it is.
C26_Witness ==
  /\ call.op = "normalize"
  /\ normalize_operators(call.query) # call.query
  /\ result # normalize_operators(call.query)
  /\ normalize(result) = result

\* C27, as stated: for non-empty clauses A and B without the words if, then
\* and and, the variations of "if A then B" hold "B if A", and the variations
\* of "B if A" hold "if A then B".
C27_ImplicationRoundTrip ==
  call.op = "generate_variations"
    => \A A \in Clauses, B \in Clauses :
         /\ call.query = IfThen(A, B) => BackIf(A, B) \in Range(result)
         /\ call.query = BackIf(A, B) => IfThen(A, B) \in Range(result)

----------------------------------------------------------------------------
(* Configuration (config.py)                                               *)

\* SearchConfig.validate raises ValueError.
search_validate_raises(section) ==
  \/ ~(FLeq(FZero, section.keyword_weight) /\ FLeq(section.keyword_weight, FOne))
  \/ ~(FLeq(FZero, section.semantic_weight) /\ FLeq(section.semantic_weight, FOne))
  \/ section.default_top_k < 1
  \/ FLess(section.name_match_boost, FZero)
  \/ FLess(section.doc_match_boost, FZero)

\* IndexingConfig.validate raises ValueError.
indexing_validate_raises(indexing) ==
  indexing.lemma_file_keywords = <<>> \/ indexing.lemma_function_prefixes = <<>>

\* Config.validate raises ValueError.
validate_raises(config) ==
  search_validate_raises(config.search) \/ indexing_validate_raises(config.indexing)

\* Config.load_from_file on a file that exists and holds a "search" section:
\* [raised, config].
load_from_file(file) ==
  LET config == [search |-> file[1], indexing |-> DefaultIndexingConfig]
  IN  [raised |-> validate_raises(config), config |-> config]

\* Config.load_from_file_or_default: a file that fails to load is reported on
\* the console and the defaults are returned.
load_from_file_or_default(file) ==
  IF file # None
    THEN IF load_from_file(file).raised THEN DefaultConfig ELSE load_from_file(file).config
    ELSE DefaultConfig

\* get_config(reload=reload): [config, global], the configuration returned
\* and the singleton after the call.
get_config(global, file, reload) ==
  IF global = None \/ reload
    THEN [config |-> load_from_file_or_default(file),
          global |-> Some(load_from_file_or_default(file))]
    ELSE [config |-> global[1], global |-> global]

\* A search section with a keyword_weight of 1.5.
HeavySearchConfig == [DefaultSearchConfig EXCEPT !.keyword_weight = <<3, 2>>]

\* A search section with a default_top_k of 0 and a negative name boost.
NegativeSearchConfig ==
  [DefaultSearchConfig EXCEPT !.default_top_k = 0, !.name_match_boost = <<-1, 1>>]

\* A search section that names another model.
MpnetSearchConfig == [DefaultSearchConfig EXCEPT !.embedding_model = "all-mpnet-base-v2"]

\* What verus_lemma_finder.config.json can hold.
FileSearchConfigs == {CustomSearchConfig, HeavySearchConfig}

\* The config argument of LemmaSearcher(...): omitted, or a Config object.
ConfigArguments ==
  {None} \cup {Some([search |-> section, indexing |-> DefaultIndexingConfig]) :
                 section \in {DefaultSearchConfig, MpnetSearchConfig, HeavySearchConfig,
                             NegativeSearchConfig}}

----------------------------------------------------------------------------
(* Engines in their environment: the configuration file, the embeddings     *)
(* file and the encoder can be in any state when an engine is made or asked *)

MaxLoads == 2

\* The lemmas of the index the engines are made from.
EngineLemmas == SubSeq(AllLemmas, 1, 2)

\* The queries the engines are asked: a lemma name and the empty string.
EngineQueries == {Query3, Query4}

\* ModelCache.get_model calls SentenceTransformer(model_name).
get_model_loads(cache, model_name, available) ==
  available /\ (cache.model = None \/ cache.model_name # Some(model_name))

\* An index saved with embeddings at path 1; no engine yet.
InitEngine ==
  /\ EMBEDDINGS_AVAILABLE \in BOOLEAN
  /\ encoder_seed = 1
  /\ model_cache = EmptyCache
  /\ LET session == OpenSession(EngineLemmas,
                                [with_embeddings |-> TRUE, use_embeddings |-> FALSE,
                                 available |-> TRUE],
                                DefaultConfig, 1)
     IN  /\ index_files = session.files
         /\ embeddings_files = session.npys
  /\ QuietEnvironment
  /\ indexer = None
  /\ searcher = None
  /\ constructed = None
  /\ call = NoCall
  /\ result = <<>>

\* Something writes verus_lemma_finder.config.json.
WriteConfigFile(section) ==
  /\ config_file' = Some(section)
  /\ UNCHANGED <<EMBEDDINGS_AVAILABLE, encoder_seed, model_cache, index_files,
                 embeddings_files, indexer, searcher, constructed, call, result,
                 global_config, config_objects, unreadable_npys, encoder_raises, loads, held, threads>>

\* get_config(reload=reload), called by the program itself.
GetConfig(reload) ==
  /\ global_config' = get_config(global_config, config_file, reload).global
  /\ UNCHANGED <<EMBEDDINGS_AVAILABLE, encoder_seed, model_cache, index_files,
                 embeddings_files, indexer, searcher, constructed, call, result,
                 config_file, config_objects, unreadable_npys, encoder_raises, loads, held, threads>>

\* The embeddings file at an index path is overwritten with bytes np.load
\* cannot read.
DamageEmbeddingsFile(index_file) ==
  /\ embeddings_files[index_file] # None
  /\ unreadable_npys' = unreadable_npys \cup {index_file}
  /\ UNCHANGED <<EMBEDDINGS_AVAILABLE, encoder_seed, model_cache, index_files,
                 embeddings_files, indexer, searcher, constructed, call, result,
                 config_file, global_config, config_objects, encoder_raises, loads, held, threads>>

\* The embeddings file at an index path is deleted.
RemoveEmbeddingsFile(index_file) ==
  /\ embeddings_files[index_file] # None
  /\ embeddings_files' = [embeddings_files EXCEPT ![index_file] = None]
  /\ unreadable_npys' = unreadable_npys \ {index_file}
  /\ UNCHANGED <<EMBEDDINGS_AVAILABLE, encoder_seed, model_cache, index_files,
                 indexer, searcher, constructed, call, result,
                 config_file, global_config, config_objects, encoder_raises, loads, held, threads>>

\* The encoder starts or stops raising on encode.
EncoderChanges ==
  /\ encoder_raises' = ~encoder_raises
  /\ UNCHANGED <<EMBEDDINGS_AVAILABLE, encoder_seed, model_cache, index_files,
                 embeddings_files, indexer, searcher, constructed, call, result,
                 config_file, global_config, config_objects, unreadable_npys, loads, held, threads>>

\* searcher = LemmaSearcher(index_file, use_embeddings, config): the config
\* argument, or get_config() when it is omitted. `constructed` records what
\* the call was given: whether the configuration offered to it (the argument,
\* or the file get_config read for it) was invalid, and whether the embedding
\* capability was missing or the matrix could not be loaded.
NewEngine(index_file, use_embeddings, config_argument) ==
  LET got    == get_config(global_config, config_file, FALSE)
      config == IF config_argument # None THEN config_argument[1] ELSE got.config
      made   == new_searcher(index_file, use_embeddings, config, index_files,
                             embeddings_files, unreadable_npys, EMBEDDINGS_AVAILABLE,
                             model_cache, encoder_seed)
      name   == config.search.embedding_model
      loaded == ~made.raised /\ made.self.model # None
                  /\ get_model_loads(model_cache, name, EMBEDDINGS_AVAILABLE)
  IN  /\ call = NoCall
      /\ loaded => loads[name] < MaxLoads
      /\ searcher' = IF made.raised THEN None ELSE Some(made.self)
      /\ model_cache' = made.cache
      /\ global_config' = IF config_argument # None THEN global_config ELSE got.global
      /\ loads' = IF loaded THEN [loads EXCEPT ![name] = @ + 1] ELSE loads
      /\ held' = IF ~made.raised /\ made.self.model # None
                   THEN held \cup {<<name, loads'[name]>>} ELSE held
      /\ constructed' =
           Some([index_file     |-> index_file,
                 malformed      |-> Malformed(index_files[index_file]),
                 raised         |-> made.raised,
                 invalid_config |->
                   IF config_argument # None THEN validate_raises(config_argument[1])
                   ELSE global_config = None /\ config_file # None
                          /\ load_from_file(config_file).raised,
                 degraded       |-> \/ ~EMBEDDINGS_AVAILABLE
                                    \/ embeddings_files[index_file] = None
                                    \/ index_file \in unreadable_npys])
      /\ UNCHANGED <<EMBEDDINGS_AVAILABLE, encoder_seed, index_files, embeddings_files,
                     indexer, call, result, config_file, config_objects, unreadable_npys, encoder_raises,
                     threads>>

\* semantic_search raises: it has a matrix and an encoder, and encode raises
\* (there is no try around self.model.encode).
semantic_search_raises(self, encode_raises) ==
  ~(self.embeddings = None \/ self.model = None) /\ encode_raises

\* hybrid_search raises: it has a matrix and its call of semantic_search raises.
hybrid_search_raises(self, encode_raises) ==
  self.embeddings # None /\ semantic_search_raises(self, encode_raises)

\* fuzzy_search raises: it has a matrix and a call of hybrid_search in its
\* loop over the variations raises.
fuzzy_search_raises(self, query, encode_raises) ==
  /\ self.embeddings # None
  /\ generate_variations(normalize(query)) # <<>>
  /\ hybrid_search_raises(self, encode_raises)

\* search raises: its call of fuzzy_search does.
search_raises(self, query, encode_raises) == fuzzy_search_raises(self, query, encode_raises)

\* The record of a call that raised or returned, made while the encoder was
\* raising or not.
CalledRaising(op, query, top_k, raises) ==
  [op |-> op, query |-> query, top_k |-> top_k, keyword_weight |-> None,
   raised |-> raises, encoder_raises |-> encoder_raises]

\* searcher.keyword_search(query, top_k)
KeywordSearchCall(query, top_k) ==
  /\ searcher # None
  /\ call = NoCall
  /\ call' = CalledRaising("keyword_search", query, top_k, FALSE)
  /\ result' = keyword_search(searcher[1], query, top_k)
  /\ UNCHANGED <<searcher, Session>>

\* searcher.semantic_search(query, top_k): the result, unless it raises
SemanticSearchCall(query, top_k) ==
  /\ searcher # None
  /\ call = NoCall
  /\ call' = CalledRaising("semantic_search", query, top_k, semantic_search_raises(searcher[1], encoder_raises))
  /\ result' = IF semantic_search_raises(searcher[1], encoder_raises) THEN <<>> ELSE semantic_search(searcher[1], query, top_k)
  /\ UNCHANGED <<searcher, Session>>

\* searcher.hybrid_search(query, top_k): the result, unless it raises
HybridSearchCall(query, top_k) ==
  /\ searcher # None
  /\ call = NoCall
  /\ call' = CalledRaising("hybrid_search", query, top_k, hybrid_search_raises(searcher[1], encoder_raises))
  /\ result' = IF hybrid_search_raises(searcher[1], encoder_raises) THEN <<>> ELSE hybrid_search(searcher[1], query, top_k, None)
  /\ UNCHANGED <<searcher, Session>>

\* searcher.fuzzy_search(query, top_k): the result, unless it raises
FuzzySearchCall(query, top_k) ==
  /\ searcher # None
  /\ call = NoCall
  /\ call' = CalledRaising("fuzzy_search", query, top_k, fuzzy_search_raises(searcher[1], query, encoder_raises))
  /\ result' = IF fuzzy_search_raises(searcher[1], query, encoder_raises) THEN <<>> ELSE fuzzy_search(searcher[1], query, top_k)
  /\ UNCHANGED <<searcher, Session>>

\* searcher.search(query, top_k): the result, unless it raises
SearchCall(query, top_k) ==
  /\ searcher # None
  /\ call = NoCall
  /\ call' = CalledRaising("search", query, top_k, search_raises(searcher[1], query, encoder_raises))
  /\ result' = IF search_raises(searcher[1], query, encoder_raises) THEN <<>> ELSE search(searcher[1], query, top_k)
  /\ UNCHANGED <<searcher, Session>>

NextEngine ==
  \/ \E section \in FileSearchConfigs : WriteConfigFile(section)
  \/ \E reload \in BOOLEAN : GetConfig(reload)
  \/ \E index_file \in Paths : DamageEmbeddingsFile(index_file)
  \/ \E index_file \in Paths : RemoveEmbeddingsFile(index_file)
  \/ EncoderChanges
  \/ \E index_file \in Paths, use_embeddings \in BOOLEAN, config \in ConfigArguments :
       NewEngine(index_file, use_embeddings, config)
  \/ \E query \in EngineQueries : KeywordSearchCall(query, 1)
  \/ \E query \in EngineQueries : SemanticSearchCall(query, 1)
  \/ \E query \in EngineQueries : HybridSearchCall(query, 1)
  \/ \E query \in EngineQueries : FuzzySearchCall(query, 1)
  \/ \E query \in EngineQueries : SearchCall(query, 1)
  \/ Return

SpecEngine == InitEngine /\ [][NextEngine]_vars

\* The answer of the lexical search alone to the call.
LexicalAnswer ==
  keyword_search(searcher[1],
                 IF call.op \in {"fuzzy_search", "search"} THEN normalize(call.query)
                 ELSE call.query,
                 call.top_k)

\* C11, as stated: a configuration with a weight outside [0, 1], a
\* default_top_k below 1 or a negative boost, passed to the constructor or
\* read from the configuration file through get_config, is rejected with an
\* error to the caller, and no search runs with such a configuration.
C11_InvalidConfigRejected ==
  /\ (constructed # None /\ constructed[1].invalid_config) => constructed[1].raised
  /\ (searcher # None /\ call.op \in SearchOps)
       => ~search_validate_raises(searcher[1].config.search)

\* C12, as stated: semantic_search, hybrid_search, fuzzy_search and search
\* never raise, for any query, the empty one included; when the encoder
\* raises on the query they return the result of the lexical search.
C12_EncoderFailureDegradesToLexical ==
  (searcher # None /\ call.op \in SearchOps \ {"keyword_search"})
    => /\ ~call.raised
       /\ call.encoder_raises => result = LexicalAnswer

\* C13, as stated: with the embedding library absent, the matrix file missing
\* or the matrix file unreadable, construction succeeds, the engine holds no
\* matrix, and every search call on it is answered by the lexical search.
C13_MissingCapabilityFallsBack ==
  (constructed # None /\ constructed[1].degraded)
    => /\ ~constructed[1].raised
       /\ searcher # None
       /\ searcher[1].embeddings = None
       /\ call.op \in SearchOps => (~call.raised /\ result = LexicalAnswer)

\* C14, as stated: over any sequence of constructions and searches the
\* encoder of a model name is instantiated at most once, every engine
\* configured with that name holds that one instance, and no search call
\* instantiates an encoder.
C14_EncoderLoadedOncePerName ==
  /\ [](/\ \A name \in ModelNames : loads[name] <= 1
        /\ \A h, g \in held : h[1] = g[1] => h[2] = g[2])
  /\ [][(call = NoCall /\ call'.op \in SearchOps) => loads' = loads]_vars

----------------------------------------------------------------------------
(* ModelCache.get_model called from several threads (utils.py): the method  *)
(* takes no lock, so the threads interleave between its reads, the call of  *)
(* SentenceTransformer and its two stores                                   *)

\* The n-th object that SentenceTransformer(model_name) returned: Python
\* tells two loads of one name apart (`a is b`).
LoadedInstance(model_name, seed, n) == [name |-> model_name, seed |-> seed, instance |-> n]

\* What the model cache's actions leave alone.
OutsideCache ==
  <<EMBEDDINGS_AVAILABLE, encoder_seed, index_files, embeddings_files, indexer,
    searcher, constructed, call, result, config_file, global_config, config_objects,
    unreadable_npys, encoder_raises, held>>

\* Nothing cached and no thread in get_model.
InitCache ==
  /\ EMBEDDINGS_AVAILABLE \in BOOLEAN
  /\ QuietEnvironment
  /\ encoder_seed = 1
  /\ model_cache = EmptyCache
  /\ index_files = [p \in Paths |-> None]
  /\ embeddings_files = [p \in Paths |-> None]
  /\ indexer = None
  /\ searcher = None
  /\ constructed = None
  /\ call = NoCall
  /\ result = <<>>

\* Thread t calls ModelCache.get_model(model_name).
CallGetModel(t, model_name) ==
  /\ threads[t].pc = "idle"
  /\ threads' = [threads EXCEPT ![t] = [Idle EXCEPT !.pc = "check_available",
                                                    !.model_name = Some(model_name)]]
  /\ UNCHANGED <<model_cache, loads, OutsideCache>>

\* if not EMBEDDINGS_AVAILABLE: return None
CheckAvailable(t) ==
  /\ threads[t].pc = "check_available"
  /\ threads' = [threads EXCEPT ![t].pc = IF EMBEDDINGS_AVAILABLE THEN "read_model"
                                          ELSE "done"]
  /\ UNCHANGED <<model_cache, loads, OutsideCache>>

\* cls._model is None, the left operand of the `or`
ReadModel(t) ==
  /\ threads[t].pc = "read_model"
  /\ threads' = [threads EXCEPT ![t].pc = IF model_cache.model = None THEN "load"
                                          ELSE "read_name"]
  /\ UNCHANGED <<model_cache, loads, OutsideCache>>

\* cls._model_name != model_name, the right operand
ReadModelName(t) ==
  /\ threads[t].pc = "read_name"
  /\ threads' = [threads EXCEPT ![t].pc =
                   IF model_cache.model_name # threads[t].model_name THEN "load"
                   ELSE "return"]
  /\ UNCHANGED <<model_cache, loads, OutsideCache>>

\* SentenceTransformer(model_name), before its value is stored
LoadModel(t) ==
  /\ threads[t].pc = "load"
  /\ LET name == threads[t].model_name[1]
     IN  /\ loads' = [loads EXCEPT ![name] = @ + 1]
         /\ threads' = [threads EXCEPT
              ![t].pc = "store_model",
              ![t].loaded = Some(LoadedInstance(name, encoder_seed, loads[name] + 1))]
  /\ UNCHANGED <<model_cache, OutsideCache>>

\* cls._model = <the loaded model>
StoreModel(t) ==
  /\ threads[t].pc = "store_model"
  /\ model_cache' = [model_cache EXCEPT !.model = threads[t].loaded]
  /\ threads' = [threads EXCEPT ![t].pc = "store_name"]
  /\ UNCHANGED <<loads, OutsideCache>>

\* cls._model_name = model_name
StoreModelName(t) ==
  /\ threads[t].pc = "store_name"
  /\ model_cache' = [model_cache EXCEPT !.model_name = threads[t].model_name]
  /\ threads' = [threads EXCEPT ![t].pc = "return"]
  /\ UNCHANGED <<loads, OutsideCache>>

\* return cls._model
ReturnModel(t) ==
  /\ threads[t].pc = "return"
  /\ threads' = [threads EXCEPT ![t].pc = "done", ![t].returned = model_cache.model]
  /\ UNCHANGED <<model_cache, loads, OutsideCache>>

NextCache ==
  \/ \E t \in Threads, model_name \in ModelNames : CallGetModel(t, model_name)
  \/ \E t \in Threads : CheckAvailable(t)
  \/ \E t \in Threads : ReadModel(t)
  \/ \E t \in Threads : ReadModelName(t)
  \/ \E t \in Threads : LoadModel(t)
  \/ \E t \in Threads : StoreModel(t)
  \/ \E t \in Threads : StoreModelName(t)
  \/ \E t \in Threads : ReturnModel(t)

SpecCache == InitCache /\ [][NextCache]_vars

\* The threads whose call has returned, and whether some call is under way.
Finished == {t \in Threads : threads[t].pc = "done"}
Quiescent == \A t \in Threads : threads[t].pc \in {"idle", "done"}

\* The orders in which the calls of a set of threads can run one after another.
Orders(callers) ==
  {order \in [1..Cardinality(callers) -> callers] :
     \A i, j \in 1..Cardinality(callers) : i # j => order[i] # order[j]}

\* get_model run from its first line to its return with no other thread in
\* between, on [cache, loads, returned].
get_model_alone(state, t, model_name) ==
  IF ~EMBEDDINGS_AVAILABLE THEN [state EXCEPT !.returned[t] = None]
  ELSE IF state.cache.model = None \/ state.cache.model_name # Some(model_name)
    THEN LET n == state.loads[model_name] + 1
             loaded == Some(LoadedInstance(model_name, encoder_seed, n))
         IN  [cache |-> [model |-> loaded, model_name |-> Some(model_name)],
              loads |-> [state.loads EXCEPT ![model_name] = n],
              returned |-> [state.returned EXCEPT ![t] = loaded]]
    ELSE [state EXCEPT !.returned[t] = state.cache.model]

\* The calls of the threads of order, from its i-th on, one after another.
RECURSIVE sequential(_, _, _)
sequential(order, i, state) ==
  IF i > Len(order) THEN state
  ELSE sequential(order, i + 1,
                  get_model_alone(state, order[i], threads[order[i]].model_name[1]))

\* What the calls made so far give when they run in the given order on an
\* empty cache.
SequentialOutcome(order) ==
  sequential(order, 1, [cache |-> EmptyCache,
                        loads |-> [name \in ModelNames |-> 0],
                        returned |-> [t \in Threads |-> None]])

\* C15, as stated: whatever the interleaving of concurrent get_model calls,
\* once they have returned, the model each caller received, the number of
\* loads of each name and the cached (model, model name) pair are those of
\* some sequential order of the same calls; requests for one name load it
\* once, and every caller receives a model loaded for the name it asked for.
C15_GetModelThreadSafe ==
  Quiescent =>
    /\ \E order \in Orders(Finished) :
         LET matches(outcome) ==
               /\ outcome.cache = model_cache
               /\ outcome.loads = loads
               /\ \A t \in Finished : outcome.returned[t] = threads[t].returned
         IN  matches(SequentialOutcome(order))
    /\ \A name \in ModelNames :
         (\A t \in Finished : threads[t].model_name = Some(name)) => loads[name] <= 1
    /\ \A t \in Finished :
         threads[t].returned # None
           => threads[t].returned[1].name = threads[t].model_name[1]

----------------------------------------------------------------------------
(* Ranking on an index of five lemmas: hybrid_search takes the best         *)
(* top_k * 2 of each ranking, so with more than four lemmas the candidates  *)
(* of a call depend on its top_k                                            *)

\* The indexes of the ranking sessions: the five lemmas in two orders.
RankingIndexes == {AllLemmas, <<Lemma1, Lemma3, Lemma4, Lemma2, Lemma5>>}

\* top_k of the ranking sessions.
RankingTopKs == 1..MaxTopK

\* An engine with a matrix on one of the indexes.
InitRanking ==
  /\ encoder_seed \in 1..MaxSeed
  /\ QuietEnvironment
  /\ indexer = None
  /\ call = NoCall
  /\ result = <<>>
  /\ \E lemmas \in RankingIndexes, config \in Configs :
       LET session == OpenSession(lemmas,
                                  [with_embeddings |-> TRUE, use_embeddings |-> TRUE,
                                   available |-> TRUE],
                                  config, encoder_seed)
       IN  /\ EMBEDDINGS_AVAILABLE = TRUE
           /\ index_files = session.files
           /\ embeddings_files = session.npys
           /\ searcher = Some(session.made.self)
           /\ model_cache = session.made.cache
           /\ constructed = Some([index_file |-> 1,
                                   malformed  |-> FALSE,
                                   raised     |-> session.made.raised])

NextRanking ==
  \/ call = NoCall /\ \E query \in Queries, top_k \in RankingTopKs :
                        KeywordSearch(query, top_k)
  \/ call = NoCall /\ \E query \in Queries, top_k \in RankingTopKs :
                        SemanticSearch(query, top_k)
  \/ call = NoCall /\ \E query \in Queries, top_k \in RankingTopKs :
                        HybridSearch(query, top_k, None)
  \/ call = NoCall /\ \E query \in Queries, top_k \in RankingTopKs :
                        FuzzySearch(query, top_k)
  \/ call = NoCall /\ \E query \in Queries, top_k \in RankingTopKs :
                        Search(query, top_k)
  \/ Return

SpecRanking == InitRanking /\ [][NextRanking]_vars

\* The first j entries of search(query, top_k) are not search(query, j).
PrefixDiffers(self, query, j, top_k) ==
  slice_to(search(self, query, top_k), j) # search(self, query, j)

\* C21: prefix consistency of search is not guaranteed. Some engine with a
\* matrix (the second index, seed 1, the default configuration) has a query
\* and 0 < j < k such that the first j entries of search(q, k) differ from
\* search(q, j).
C21_PrefixNotGuaranteed ==
  (/\ call = NoCall
   /\ encoder_seed = 1
   /\ searcher[1].lemmas # AllLemmas
   /\ searcher[1].config.search = DefaultSearchConfig)
    => \E query \in Queries, top_k \in RankingTopKs :
         \E j \in 1..(top_k - 1) : PrefixDiffers(searcher[1], query, j, top_k)

\* search(q, k) has returned on an engine with a matrix, and its first j
\* entries are not what search(q, j) returns.
C21_Witness ==
  /\ call.op = "search"
  /\ HasMatrix
  /\ \E j \in 1..(call.top_k - 1) :
       slice_to(result, j) # search(searcher[1], call.query, j)

----------------------------------------------------------------------------
(* ModelCache used by one caller: get_model, clear_cache and is_cached in   *)
(* any order, with a library that may be absent and loads that may raise    *)

\* get_model storing the name before it loads the model.
get_model_name_first(cache, model_name, available, seed, load_raises) ==
  IF ~available THEN [raised |-> FALSE, returned |-> None, cache |-> cache]
  ELSE IF cache.model = None \/ cache.model_name # Some(model_name)
    THEN IF load_raises
           THEN [raised |-> TRUE, returned |-> None,
                 cache |-> [cache EXCEPT !.model_name = Some(model_name)]]
           ELSE [raised |-> FALSE,
                 returned |-> Some(SentenceTransformer(model_name, seed)),
                 cache |-> [model |-> Some(SentenceTransformer(model_name, seed)),
                            model_name |-> Some(model_name)]]
    ELSE [raised |-> FALSE, returned |-> cache.model, cache |-> cache]

\* ModelCache.get_model when SentenceTransformer(model_name) may raise:
\* [raised, returned, cache after the call]. The right-hand side of
\* `cls._model = SentenceTransformer(model_name)` raises before anything is
\* stored.
get_model_or_raise(cache, model_name, available, seed, load_raises) ==
  IF ~available THEN [raised |-> FALSE, returned |-> None, cache |-> cache]
  ELSE IF cache.model = None \/ cache.model_name # Some(model_name)
    THEN IF load_raises
           THEN [raised |-> TRUE, returned |-> None, cache |-> cache]
           ELSE [raised |-> FALSE,
                 returned |-> Some(SentenceTransformer(model_name, seed)),
                 cache |-> [model |-> Some(SentenceTransformer(model_name, seed)),
                            model_name |-> Some(model_name)]]
    ELSE [raised |-> FALSE, returned |-> cache.model, cache |-> cache]

\* ModelCache.clear_cache
clear_cache(cache) == [model |-> None, model_name |-> None]

\* ModelCache.is_cached
is_cached(cache) == cache.model # None

\* The record of a call on the cache.
CalledCache(op, model_name, raised) ==
  [op |-> op, query |-> <<>>, top_k |-> 0, keyword_weight |-> None,
   model_name |-> model_name, raised |-> raised]

\* What the calls on the cache leave alone.
OutsideCacheCalls ==
  <<EMBEDDINGS_AVAILABLE, encoder_seed, index_files, embeddings_files, indexer,
    searcher, constructed, config_file, global_config, config_objects, unreadable_npys,
    encoder_raises, held, threads>>

\* Nothing cached; the library is installed or not.
InitCacheCalls ==
  /\ EMBEDDINGS_AVAILABLE \in BOOLEAN
  /\ QuietEnvironment
  /\ encoder_seed \in 1..MaxSeed
  /\ model_cache = EmptyCache
  /\ index_files = [p \in Paths |-> None]
  /\ embeddings_files = [p \in Paths |-> None]
  /\ indexer = None
  /\ searcher = None
  /\ constructed = None
  /\ call = NoCall
  /\ result = <<>>

\* ModelCache.get_model(model_name), SentenceTransformer raising or not.
GetModel(model_name, load_raises) ==
  /\ call = NoCall
  /\ LET loads_it == get_model_loads(model_cache, model_name, EMBEDDINGS_AVAILABLE)
         done(after) ==
           /\ model_cache' = after.cache
           /\ call' = CalledCache("get_model", Some(model_name), after.raised)
           /\ result' = after.returned
           /\ loads' = IF loads_it /\ ~after.raised
                         THEN [loads EXCEPT ![model_name] = @ + 1] ELSE loads
     IN  /\ loads_it => loads[model_name] < MaxLoads
         /\ done(get_model_or_raise(model_cache, model_name, EMBEDDINGS_AVAILABLE,
                                    encoder_seed, load_raises))
  /\ UNCHANGED OutsideCacheCalls

\* ModelCache.clear_cache()
ClearCache ==
  /\ call = NoCall
  /\ model_cache' = clear_cache(model_cache)
  /\ call' = CalledCache("clear_cache", None, FALSE)
  /\ result' = None
  /\ UNCHANGED <<loads, OutsideCacheCalls>>

\* ModelCache.is_cached()
IsCached ==
  /\ call = NoCall
  /\ call' = CalledCache("is_cached", None, FALSE)
  /\ result' = is_cached(model_cache)
  /\ UNCHANGED <<model_cache, loads, OutsideCacheCalls>>

NextCacheCalls ==
  \/ \E model_name \in ModelNames, load_raises \in BOOLEAN :
       GetModel(model_name, load_raises)
  \/ ClearCache
  \/ IsCached
  \/ Return

SpecCacheCalls == InitCacheCalls /\ [][NextCacheCalls]_vars

\* C29: whatever get_model and clear_cache calls one caller has made, loads
\* that raised and calls without the library included, the cached model is
\* absent exactly when the cached name is absent, is_cached() is true exactly
\* when a model is cached, and a cached model is the one loaded for the
\* cached name.
C29_CachePairConsistent ==
  /\ model_cache.model = None <=> model_cache.model_name = None
  /\ is_cached(model_cache) <=> model_cache.model # None
  /\ call.op = "is_cached" => (result <=> model_cache.model # None)
  /\ model_cache.model # None => model_cache.model[1].name = model_cache.model_name[1]

\* get_model for another name has raised in its load while a model was
\* cached: the cache still holds the earlier model under its own name.
C29_Witness ==
  /\ call.op = "get_model"
  /\ call.raised
  /\ model_cache.model # None
  /\ model_cache.model_name # call.model_name
--------------------------------------------------------------------------------
\* The configuration singleton: get_config(config_path, reload) and
\* reset_config(), with the identity of the Config objects. In these sessions
\* config._config holds a Config object, [config, object]: its fields and
\* which of the objects created so far it is.

\* How many Config objects one session creates.
MaxConfigObjects == 3

\* The files at the paths a caller can name: my_config.json holds a valid
\* "search" section, heavy.json an invalid one, and missing.json does not
\* exist. (The default path's file is config_file.)
OtherConfigFiles ==
  [path \in {"my_config.json", "heavy.json", "missing.json"} |->
     CASE path = "my_config.json" -> Some(MpnetSearchConfig)
       [] path = "heavy.json" -> Some(HeavySearchConfig)
       [] OTHER -> None]

\* The config_path argument: omitted, or one of those paths.
ConfigPaths == {None} \cup {Some(path) : path \in DOMAIN OtherConfigFiles}

\* get_config, which loads whenever a config_path is given.
get_config_path_first(global, objects, config_path, default_file, reload) ==
  LET file == IF config_path = None THEN default_file ELSE OtherConfigFiles[config_path[1]]
      made == [config |-> load_from_file_or_default(file), object |-> objects + 1]
  IN  IF global = None \/ reload \/ config_path # None
        THEN [returned |-> made, global |-> Some(made), objects |-> objects + 1]
        ELSE [returned |-> global[1], global |-> global, objects |-> objects]

\* get_config(config_path, reload): [returned, global, objects], the object
\* returned, the singleton after the call and the number of Config objects
\* created so far. load_from_file_or_default reads the default path when
\* config_path is None, and every path it takes ends in a new Config object.
get_config_instance(global, objects, config_path, default_file, reload) ==
  LET file == IF config_path = None THEN default_file ELSE OtherConfigFiles[config_path[1]]
      made == [config |-> load_from_file_or_default(file), object |-> objects + 1]
  IN  IF global = None \/ reload
        THEN [returned |-> made, global |-> Some(made), objects |-> objects + 1]
        ELSE [returned |-> global[1], global |-> global, objects |-> objects]

\* The record of a call on the configuration module.
CalledConfig(op, config_path, reload) ==
  [op |-> op, query |-> <<>>, top_k |-> 0, keyword_weight |-> None,
   config_path |-> config_path, reload |-> reload]

\* What the calls on the configuration leave alone.
OutsideConfig ==
  <<EMBEDDINGS_AVAILABLE, encoder_seed, model_cache, index_files, embeddings_files,
    indexer, searcher, constructed, config_file, unreadable_npys, encoder_raises,
    loads, held, threads>>

\* Nothing loaded yet, and no file at the default path.
InitConfig ==
  /\ EMBEDDINGS_AVAILABLE = TRUE
  /\ QuietEnvironment
  /\ encoder_seed = 1
  /\ model_cache = EmptyCache
  /\ index_files = [p \in Paths |-> None]
  /\ embeddings_files = [p \in Paths |-> None]
  /\ indexer = None
  /\ searcher = None
  /\ constructed = None
  /\ call = NoCall
  /\ result = <<>>

\* get_config(config_path, reload)
GetConfigInstance(config_path, reload) ==
  /\ call = NoCall
  /\ LET done(got) ==
           /\ got.objects <= MaxConfigObjects
           /\ global_config' = got.global
           /\ config_objects' = got.objects
           /\ call' = CalledConfig("get_config", config_path, reload)
           /\ result' = got.returned
     IN  done(get_config_instance(global_config, config_objects, config_path,
                                  config_file, reload))
  /\ UNCHANGED OutsideConfig

\* reset_config()
ResetConfig ==
  /\ call = NoCall
  /\ global_config' = None
  /\ call' = CalledConfig("reset_config", None, FALSE)
  /\ result' = None
  /\ UNCHANGED <<config_objects, OutsideConfig>>

NextConfig ==
  \/ \E config_path \in ConfigPaths, reload \in BOOLEAN :
       GetConfigInstance(config_path, reload)
  \/ ResetConfig
  \/ call = NoCall /\ \E section \in FileSearchConfigs : WriteConfigFile(section)
  \/ Return

SpecConfig == InitConfig /\ [][NextConfig]_vars

\* The step is a call of op.
Calls(op) == call = NoCall /\ call'.op = op

\* C30: a get_config call made while a configuration is loaded and without
\* reload=True returns the very Config object the singleton holds, creates
\* no object and reads no file, whatever config_path it is given; the
\* singleton changes only in reset_config and in a get_config call that finds
\* it empty or has reload=True; and such a call (the next one after
\* reset_config included) loads the file at config_path, or at the default
\* path, into a new object.
C30_SingletonUntilResetOrReload ==
  [][/\ Calls("get_config") /\ global_config # None /\ ~call'.reload
          => /\ result' = global_config[1]
             /\ global_config' = global_config
             /\ config_objects' = config_objects
     /\ global_config' # global_config
          => \/ Calls("reset_config")
             \/ Calls("get_config") /\ (global_config = None \/ call'.reload)
     /\ Calls("reset_config") => global_config' = None
     /\ Calls("get_config") /\ (global_config = None \/ call'.reload)
          => /\ result'.object = config_objects + 1
             /\ config_objects' = config_objects + 1
             /\ global_config' = Some(result')
             /\ result'.config =
                  load_from_file_or_default(
                    IF call'.config_path = None THEN config_file
                    ELSE OtherConfigFiles[call'.config_path[1]])]_vars

\* get_config(Path("my_config.json")) has returned the object an earlier
\* call loaded from another file: the path was ignored, and no object was
\* created since.
C30_Witness ==
  /\ call.op = "get_config"
  /\ call.config_path = Some("my_config.json")
  /\ ~call.reload
  /\ result = global_config[1]
  /\ result.config # load_from_file_or_default(OtherConfigFiles["my_config.json"])
  /\ result.object = config_objects
  /\ config_objects > 1

====
